---- MODULE Spec2Model ----
(***************************************************************************)
(* Sign-language detector: the hold-to-commit state machine of app.py      *)
(* (detect_signs, /api/detect and the buffer / configuration handlers),    *)
(* the sentence buffer of text_converter.py and the speech queue of        *)
(* text_to_speech.py.                                                      *)
(*                                                                         *)
(* Time is counted in ticks of 0.5 s: time.time() is the variable clock,   *)
(* the gap timeout 0.5 s is 1 tick and the default hold 1.0 s is 2 ticks.  *)
(* Confidences are in percent (0.9 is 90).                                 *)
(***************************************************************************)
EXTENDS Integers, Sequences, FiniteSets, TLC

(* ------------------------------ bounds -------------------------------- *)
Horizon == 6
MaxLag == 1
MaxSentence == 3
MaxHistory == 1
MaxQueue == 1
MaxCleared == 2
ThreadHorizon == 2

(* ------------------------- program constants -------------------------- *)
GapTimeout == 1
DefaultHoldDuration == 2
DefaultThreshold == 40
InitialLastSignTime == 0
NoTime == -1
NoId == -2
None == "None"

(* time.time() at start-up is far beyond the gap timeout after time 0 *)
StartTime == GapTimeout + 1

MaxTime == StartTime + Horizon

(* Python truthiness of an optional string and of an optional time stamp *)
Truthy(text) == text # None /\ text # ""

TruthyTime(t) == t # NoTime /\ t # 0

(* ------------------------------ inputs -------------------------------- *)
(* Results recognize_gesture can return: (sign_id, sign_name, confidence) *)
NoMatch == [id |-> NoId, name |-> None, conf |-> 0]

Hello == [id |-> 0, name |-> "Hello", conf |-> 90]

Stop == [id |-> 10, name |-> "Stop", conf |-> 90]

Classifications == {Hello, Stop}

(* What the hand tracker hands to one frame: no hand (an empty landmark   *)
(* list), or 21 landmarks that the classifier maps to a result.           *)
NoHand == [hand |-> FALSE, cls |-> NoMatch]

Frames == {NoHand} \cup {[hand |-> TRUE, cls |-> c] : c \in Classifications \cup {NoMatch}}

(* sign_dictionary.json: a mapping id -> text with an entry for "Hello" (id 0) *)
(* and none for "Stop" (id 10), whose text is the rule's own name           *)
SignDicts == {[i \in {0} |-> "Hello"]}

(* values the /api/config handler is given *)
Thresholds == {DefaultThreshold, 95}

HoldDurations == {0, DefaultHoldDuration}

VARIABLES
    clock,
    current_sign, sign_start_time, last_sign_time, last_spoken_sign,
    sign_hold_duration, confidence_threshold, tts_enabled, ds_current_sentence,
    current_sentence, history,
    sign_dict, pair,
    tts_engine, tts_obj_enabled, speech_queue,
    pc,
    th, camera_lock,
    ev, lastQual, run, lastAttempt,
    pose, gesture, call,
    stop_flag, worker_thread, wk, stopper, shut, heard

detection_vars == <<current_sign, sign_start_time, last_sign_time, last_spoken_sign>>

config_vars == <<sign_hold_duration, confidence_threshold>>

converter_vars == <<current_sentence, history>>

tts_vars == <<tts_engine, tts_obj_enabled, speech_queue>>

thread_vars == <<th, camera_lock>>

ghost_vars == <<ev, lastQual, run, lastAttempt>>

(* one call of the classifier (its landmarks and result) and one call of a *)
(* TextConverter method (its arguments and return value)                   *)
unit_vars == <<pose, gesture, call>>

(* TextToSpeech: stop_flag, the worker thread and where it is in           *)
(* _speech_worker, the thread inside stop(), the thread inside shutdown(),  *)
(* and the record of what was taken from the queue and spoken              *)
worker_vars == <<stop_flag, worker_thread, wk, stopper, shut, heard>>

vars == <<clock, detection_vars, config_vars, tts_enabled, ds_current_sentence,
          converter_vars, sign_dict, pair, tts_vars, pc, thread_vars, unit_vars, worker_vars,
          ghost_vars>>

(* the request threads of the threaded server *)
Threads == {"video", "api"}

ThreadIdle == [pc |-> "idle", blk |-> "ds", sign |-> None, conf |-> 0,
               now |-> NoTime, err |-> FALSE]

Idle == [at |-> "idle", sign_text |-> None, confidence |-> 0, t1 |-> NoTime]

NoEvent(op) == [op |-> op, obs |-> "none", sign |-> None, attempt |-> FALSE,
                added |-> FALSE, spoke |-> FALSE, from |-> None]

NoQual == [sign |-> None, since |-> NoTime, gap |-> "no"]

NoRun == [sign |-> None, start |-> NoTime, prev |-> None, adds |-> 0, more |-> FALSE]

NoAttempt == [sign |-> None, time |-> NoTime, prev |-> NoTime]

(* ----------------------- gesture_recognizer.py ------------------------ *)
(* A landmark list is a function from 0 .. n-1 to points [x, y] in pixels.  *)
(* Distances are compared through their squares: d / h < k / 10 is          *)
(* 100 * d^2 < k^2 * h^2 for h > 0, and h < 10 is h^2 < 100.                *)
MinHandSize == 10
BadMargin == 30
SideMargin == 30
CircleDist == 2
SpreadDist == 2
TogetherDist == 3
CurveLow == 2
CurveHigh == 4

WRIST == 0
THUMB_MCP == 2
THUMB_IP == 3
THUMB_TIP == 4
INDEX_MCP == 5
INDEX_PIP == 6
INDEX_TIP == 8
MIDDLE_MCP == 9
MIDDLE_PIP == 10
MIDDLE_TIP == 12
RING_MCP == 13
RING_PIP == 14
RING_TIP == 16
PINKY_MCP == 17
PINKY_PIP == 18
PINKY_TIP == 20

Good == [id |-> 8, name |-> "Good", conf |-> 90]

Bad == [id |-> 9, name |-> "Bad", conf |-> 85]

Yes == [id |-> 3, name |-> "Yes", conf |-> 90]

Victory == [id |-> 20, name |-> "Victory", conf |-> 85]

More == [id |-> 12, name |-> "More", conf |-> 80]

Less == [id |-> 13, name |-> "Less", conf |-> 80]

Water == [id |-> 14, name |-> "Water", conf |-> 75]

ILoveYou == [id |-> 7, name |-> "I Love You", conf |-> 85]

LetterA == [id |-> 21, name |-> "A", conf |-> 80]

LetterB == [id |-> 22, name |-> "B", conf |-> 80]

LetterC == [id |-> 23, name |-> "C", conf |-> 75]

Abs(n) == IF n < 0 THEN -n ELSE n

LenLandmarks(landmarks) == Cardinality(DOMAIN landmarks)

(* calculate_distance, squared *)
calculate_distance_sq(point1, point2) ==
    (point1.x - point2.x) * (point1.x - point2.x)
      + (point1.y - point2.y) * (point1.y - point2.y)

NormBelow(dist_sq, hand_sq, tenths) == 100 * dist_sq < tenths * tenths * hand_sq

NormAbove(dist_sq, hand_sq, tenths) == 100 * dist_sq > tenths * tenths * hand_sq

is_finger_extended_TipNotBelow(landmarks, finger_tip, finger_pip, finger_mcp, is_thumb) ==
    IF LenLandmarks(landmarks) <= finger_tip THEN FALSE
    ELSE IF is_thumb
         THEN Abs(landmarks[finger_tip].x - landmarks[WRIST].x)
                > Abs(landmarks[finger_mcp].x - landmarks[WRIST].x)
         ELSE landmarks[finger_tip].y <= landmarks[finger_pip].y

is_finger_extended(landmarks, finger_tip, finger_pip, finger_mcp, is_thumb) ==
    IF LenLandmarks(landmarks) <= finger_tip THEN FALSE
    ELSE IF is_thumb
         THEN Abs(landmarks[finger_tip].x - landmarks[WRIST].x)
                > Abs(landmarks[finger_mcp].x - landmarks[WRIST].x)
         ELSE landmarks[finger_tip].y < landmarks[finger_pip].y

(* the None that analyze_fingers returns for fewer than 21 landmarks *)
NoFingers == [undetermined |-> TRUE]

analyze_fingers(landmarks) ==
    IF LenLandmarks(landmarks) < 21 THEN NoFingers
    ELSE
    [thumb  |-> is_finger_extended(landmarks, THUMB_TIP, THUMB_IP, THUMB_MCP, TRUE),
     index  |-> is_finger_extended(landmarks, INDEX_TIP, INDEX_PIP, INDEX_MCP, FALSE),
     middle |-> is_finger_extended(landmarks, MIDDLE_TIP, MIDDLE_PIP, MIDDLE_MCP, FALSE),
     ring   |-> is_finger_extended(landmarks, RING_TIP, RING_PIP, RING_MCP, FALSE),
     pinky  |-> is_finger_extended(landmarks, PINKY_TIP, PINKY_PIP, PINKY_MCP, FALSE)]

count_extended_fingers(fingers) ==
    IF fingers = NoFingers THEN 0
    ELSE Cardinality({k \in DOMAIN fingers : fingers[k]})

thumb_index_dist_sq(landmarks) ==
    calculate_distance_sq(landmarks[THUMB_TIP], landmarks[INDEX_TIP])

index_middle_dist_sq(landmarks) ==
    calculate_distance_sq(landmarks[INDEX_TIP], landmarks[MIDDLE_TIP])

hand_size_sq(landmarks) ==
    calculate_distance_sq(landmarks[WRIST], landmarks[MIDDLE_TIP])

(* the tests of the if-chain, in the order of the source *)
GoodRule_FingersUnchecked(landmarks) ==
    /\ analyze_fingers(landmarks).thumb
    /\ landmarks[THUMB_TIP].y < landmarks[WRIST].y

GoodRule(landmarks) ==
    LET fingers == analyze_fingers(landmarks)
    IN  /\ fingers.thumb /\ ~fingers.index /\ ~fingers.middle
        /\ ~fingers.ring /\ ~fingers.pinky
        /\ landmarks[THUMB_TIP].y < landmarks[WRIST].y

BadRule_NoMargin(landmarks) ==
    LET fingers == analyze_fingers(landmarks)
    IN  /\ ~fingers.index /\ ~fingers.middle /\ ~fingers.ring /\ ~fingers.pinky
        /\ landmarks[THUMB_TIP].y > landmarks[WRIST].y

BadRule(landmarks) ==
    LET fingers == analyze_fingers(landmarks)
    IN  /\ ~fingers.index /\ ~fingers.middle /\ ~fingers.ring /\ ~fingers.pinky
        /\ landmarks[THUMB_TIP].y > landmarks[WRIST].y + BadMargin

YesRule(landmarks) ==
    LET fingers == analyze_fingers(landmarks)
    IN  /\ fingers.thumb /\ fingers.index /\ ~fingers.middle
        /\ ~fingers.ring /\ ~fingers.pinky
        /\ NormBelow(thumb_index_dist_sq(landmarks), hand_size_sq(landmarks), CircleDist)
        /\ landmarks[MIDDLE_TIP].y > landmarks[MIDDLE_PIP].y
        /\ landmarks[RING_TIP].y > landmarks[RING_PIP].y
        /\ landmarks[PINKY_TIP].y > landmarks[PINKY_PIP].y

VictoryRule(landmarks) ==
    LET fingers == analyze_fingers(landmarks)
    IN  /\ ~fingers.thumb /\ fingers.index /\ fingers.middle
        /\ ~fingers.ring /\ ~fingers.pinky
        /\ NormAbove(index_middle_dist_sq(landmarks), hand_size_sq(landmarks), SpreadDist)

MoreRule(landmarks) ==
    LET fingers == analyze_fingers(landmarks)
    IN  ~fingers.thumb /\ fingers.index /\ ~fingers.middle
          /\ ~fingers.ring /\ ~fingers.pinky

StopRule(landmarks) ==
    LET fingers == analyze_fingers(landmarks)
    IN  ~fingers.thumb /\ ~fingers.index /\ ~fingers.middle
          /\ ~fingers.ring /\ ~fingers.pinky

HelloRule(landmarks) ==
    LET fingers == analyze_fingers(landmarks)
    IN  fingers.thumb /\ fingers.index /\ fingers.middle
          /\ fingers.ring /\ fingers.pinky

LessRule(landmarks) ==
    LET fingers == analyze_fingers(landmarks)
    IN  ~fingers.thumb /\ fingers.index /\ fingers.middle
          /\ fingers.ring /\ ~fingers.pinky

(* the four-finger rule asking for spread fingers, as the B rule asks for  *)
(* fingers held together                                                   *)
WaterRule_SpreadOnly(landmarks) ==
    LET fingers == analyze_fingers(landmarks)
    IN  /\ ~fingers.thumb /\ fingers.index /\ fingers.middle
        /\ fingers.ring /\ fingers.pinky
        /\ ~NormBelow(index_middle_dist_sq(landmarks), hand_size_sq(landmarks), TogetherDist)

WaterRule(landmarks) ==
    LET fingers == analyze_fingers(landmarks)
    IN  ~fingers.thumb /\ fingers.index /\ fingers.middle
          /\ fingers.ring /\ fingers.pinky

ILoveYouRule(landmarks) ==
    LET fingers == analyze_fingers(landmarks)
    IN  fingers.thumb /\ fingers.index /\ ~fingers.middle
          /\ ~fingers.ring /\ fingers.pinky

LetterARule(landmarks) ==
    LET fingers == analyze_fingers(landmarks)
    IN  /\ ~fingers.index /\ ~fingers.middle /\ ~fingers.ring /\ ~fingers.pinky
        /\ fingers.thumb
        /\ Abs(landmarks[THUMB_TIP].x - landmarks[WRIST].x) < SideMargin

LetterBRule(landmarks) ==
    LET fingers == analyze_fingers(landmarks)
    IN  /\ ~fingers.thumb /\ fingers.index /\ fingers.middle
        /\ fingers.ring /\ fingers.pinky
        /\ NormBelow(index_middle_dist_sq(landmarks), hand_size_sq(landmarks), TogetherDist)

(* the curved-hand rule with its lower bound made inclusive *)
LetterCRule_FromCircle(landmarks) ==
    LET fingers == analyze_fingers(landmarks)
    IN  /\ fingers.thumb /\ fingers.index /\ ~fingers.middle
        /\ ~fingers.ring /\ ~fingers.pinky
        /\ ~NormBelow(thumb_index_dist_sq(landmarks), hand_size_sq(landmarks), CurveLow)
        /\ NormBelow(thumb_index_dist_sq(landmarks), hand_size_sq(landmarks), CurveHigh)

LetterCRule(landmarks) ==
    LET fingers == analyze_fingers(landmarks)
    IN  /\ fingers.thumb /\ fingers.index /\ ~fingers.middle
        /\ ~fingers.ring /\ ~fingers.pinky
        /\ NormAbove(thumb_index_dist_sq(landmarks), hand_size_sq(landmarks), CurveLow)
        /\ NormBelow(thumb_index_dist_sq(landmarks), hand_size_sq(landmarks), CurveHigh)

(* recognize_gesture after the scale gate: the if-chain *)
GestureRules_StopBeforeBad(landmarks) ==
    IF GoodRule(landmarks) THEN Good
    ELSE IF StopRule(landmarks) THEN Stop
    ELSE IF BadRule(landmarks) THEN Bad
    ELSE IF YesRule(landmarks) THEN Yes
    ELSE IF VictoryRule(landmarks) THEN Victory
    ELSE IF MoreRule(landmarks) THEN More
    ELSE IF HelloRule(landmarks) THEN Hello
    ELSE IF LessRule(landmarks) THEN Less
    ELSE IF WaterRule(landmarks) THEN Water
    ELSE IF ILoveYouRule(landmarks) THEN ILoveYou
    ELSE IF LetterARule(landmarks) THEN LetterA
    ELSE IF LetterBRule(landmarks) THEN LetterB
    ELSE IF LetterCRule(landmarks) THEN LetterC
    ELSE NoMatch

GestureRules(landmarks) ==
    IF GoodRule(landmarks) THEN Good
    ELSE IF BadRule(landmarks) THEN Bad
    ELSE IF YesRule(landmarks) THEN Yes
    ELSE IF VictoryRule(landmarks) THEN Victory
    ELSE IF MoreRule(landmarks) THEN More
    ELSE IF StopRule(landmarks) THEN Stop
    ELSE IF HelloRule(landmarks) THEN Hello
    ELSE IF LessRule(landmarks) THEN Less
    ELSE IF WaterRule(landmarks) THEN Water
    ELSE IF ILoveYouRule(landmarks) THEN ILoveYou
    ELSE IF LetterARule(landmarks) THEN LetterA
    ELSE IF LetterBRule(landmarks) THEN LetterB
    ELSE IF LetterCRule(landmarks) THEN LetterC
    ELSE NoMatch

recognize_gesture_GateAfterRules(landmarks) ==
    IF LenLandmarks(landmarks) < 21 THEN NoMatch
    ELSE IF GestureRules(landmarks) # NoMatch THEN GestureRules(landmarks)
    ELSE NoMatch

(* recognize_gesture with a scale gate that only zeroes the confidence *)
recognize_gesture_ScaleZeroesConfidence(landmarks) ==
    IF LenLandmarks(landmarks) < 21 THEN NoMatch
    ELSE IF hand_size_sq(landmarks) < MinHandSize * MinHandSize
         THEN [GestureRules(landmarks) EXCEPT !.conf = 0]
    ELSE GestureRules(landmarks)

recognize_gesture(landmarks) ==
    IF LenLandmarks(landmarks) < 21 THEN NoMatch
    ELSE IF hand_size_sq(landmarks) < MinHandSize * MinHandSize THEN NoMatch
    ELSE GestureRules(landmarks)

(* one entry [id, x, y] of a landmark list has three elements; an entry     *)
(* that lacks a coordinate has fewer                                        *)
LenEntry(lm) == 1 + Cardinality(DOMAIN lm)

(* GestureRecognizer.recognize_from_landmarks(landmark_list) *)
recognize_from_landmarks(landmark_list) ==
    IF LenLandmarks(landmark_list) < 21 THEN NoMatch
    ELSE IF \E i \in DOMAIN landmark_list : LenEntry(landmark_list[i]) < 3 THEN NoMatch
    ELSE recognize_gesture(landmark_list)

(* The poses the classifier is run on: the landmarks the rules read take   *)
(* the coordinates below, every other coordinate is 0.  The values put each *)
(* comparison of the rules on both sides and on its boundary.               *)
WristX == 40
PipY == 30
WristYs == {0, 50}
ThumbTipXs == {40, 50, 80}
ThumbTipYs == {0, 30, 90}
ThumbMcpXs == {45, 60}
IndexTipXs == {40, 50, 60}
IndexTipYs == {0, 10, 40}
MiddleTipXs == {40, 55}
MiddleTipYs == {0, 30, 45}
RingTipYs == {20, 30, 40}
PinkyTipYs == {20, 40}

Point(px, py) == [x |-> px, y |-> py]

MakePose(wy, tx, ty, cx, ix, iy, mx, my, ry, ly) ==
    [i \in 0..20 |->
       CASE i = WRIST      -> Point(WristX, wy)
         [] i = THUMB_MCP  -> Point(cx, 0)
         [] i = THUMB_TIP  -> Point(tx, ty)
         [] i = INDEX_TIP  -> Point(ix, iy)
         [] i = MIDDLE_TIP -> Point(mx, my)
         [] i = RING_TIP   -> Point(0, ry)
         [] i = PINKY_TIP  -> Point(0, ly)
         [] i \in {INDEX_PIP, MIDDLE_PIP, RING_PIP, PINKY_PIP} -> Point(0, PipY)
         [] OTHER -> Point(0, 0)]

FullPoses ==
    {MakePose(wy, tx, ty, cx, ix, iy, mx, my, ry, ly) :
       wy \in WristYs, tx \in ThumbTipXs, ty \in ThumbTipYs, cx \in ThumbMcpXs,
       ix \in IndexTipXs, iy \in IndexTipYs, mx \in MiddleTipXs, my \in MiddleTipYs,
       ry \in RingTipYs, ly \in PinkyTipYs}

(* fewer than 21 landmarks: no hand (empty list) or a partial hand *)
ShortPoses == {[i \in 0..(n - 1) |-> Point(0, 0)] : n \in {0, 20}}

(* poses on both sides and on the boundary of every finger test: the thumb *)
(* tip left and right of the wrist, as far from it as the MCP joint, nearer *)
(* and farther; every other tip above, at and below its PIP joint          *)
EdgeThumbTipXs == {20, 35, 45, 80}

EdgeTipYs == {20, 30, 40}

EdgePoses ==
    {MakePose(0, tx, 0, cx, WristX, iy, WristX, my, ry, ly) :
       tx \in EdgeThumbTipXs, cx \in ThumbMcpXs, iy \in EdgeTipYs, my \in EdgeTipYs,
       ry \in EdgeTipYs, ly \in EdgeTipYs}

(* poses around the bounds of the normalized thumb-index distance: with a  *)
(* hand size of 50 px the distance is 0, 10 (d = 0.2), about 14, 20         *)
(* (d = 0.4) and more; with a hand size of 30 px the middle tip lies on its *)
(* PIP joint                                                                *)
SpanThumbTipXs == {50, 80}

SpanIndexTipYs == {0, 10}

SpanMiddleTipYs == {30, 50}

SpanPoses ==
    {MakePose(0, tx, 0, 45, ix, iy, WristX, my, ry, ly) :
       tx \in SpanThumbTipXs, ix \in IndexTipXs, iy \in SpanIndexTipYs,
       my \in SpanMiddleTipYs, ry \in EdgeTipYs, ly \in EdgeTipYs}

Poses == FullPoses \cup ShortPoses \cup EdgePoses \cup SpanPoses

RestPose == [i \in 0..(-1) |-> Point(0, 0)]

NotRun == [done |-> FALSE, res |-> NoMatch]

NoCall == [op |-> "none", sign_text |-> None, min_confidence |-> 0, confidence |-> 0,
           ret |-> FALSE]

(* ------------------------- text_converter.py -------------------------- *)
Last(seq) == IF seq = <<>> THEN None ELSE seq[Len(seq)]

(* " ".join(tokens): a string is the sequence of its pieces *)
RECURSIVE Join(_)
Join(tokens) ==
    IF tokens = <<>> THEN <<>>
    ELSE IF Len(tokens) = 1 THEN <<tokens[1]>>
    ELSE <<tokens[1], " ">> \o Join(Tail(tokens))

(* TextConverter.add_sign: TRUE iff the sign is appended *)
add_sign_ConfidenceStrict(sentence, sign_text, min_confidence, confidence) ==
    /\ Truthy(sign_text) /\ confidence > min_confidence
    /\ (sentence = <<>> \/ sentence[Len(sentence)] # sign_text)

add_sign_NoDuplicateCheck(sentence, sign_text, min_confidence, confidence) ==
    Truthy(sign_text) /\ confidence >= min_confidence

add_sign(sentence, sign_text, min_confidence, confidence) ==
    /\ Truthy(sign_text) /\ confidence >= min_confidence
    /\ (sentence = <<>> \/ sentence[Len(sentence)] # sign_text)

(* self.current_sentence.append(sign_text) *)
AppendSign_AtFront(sentence, sign_text) == <<sign_text>> \o sentence

AppendSign(sentence, sign_text) == Append(sentence, sign_text)

(* TextConverter.clear_sentence: the history after the call *)
clear_sentence_AlwaysPush(sentence, hist) == Append(hist, Join(sentence))

clear_sentence_NewestFirst(sentence, hist) ==
    IF sentence # <<>> THEN <<Join(sentence)>> \o hist ELSE hist

clear_sentence(sentence, hist) ==
    IF sentence # <<>> THEN Append(hist, Join(sentence)) ELSE hist

(* TextConverter.remove_last_word: the sentence after the call *)
remove_last_word_DropsFirst(sentence) ==
    IF sentence # <<>> THEN Tail(sentence) ELSE sentence

remove_last_word(sentence) ==
    IF sentence # <<>> THEN SubSeq(sentence, 1, Len(sentence) - 1) ELSE sentence

(* arguments the methods of TextConverter are called with *)
Tokens == {None, "", "Hello", "Stop"}

Confidences == {30, DefaultThreshold, 90}

(* --------------------------- recognizer.py ---------------------------- *)
(* SignRecognizer.recognize_sign on the gesture path: (text, confidence) *)
recognize_sign_NameFirst(cls, threshold) ==
    IF cls.id # NoId /\ cls.conf >= threshold
    THEN IF Truthy(cls.name)
         THEN [text |-> cls.name, conf |-> cls.conf]
         ELSE IF cls.id \in DOMAIN sign_dict
              THEN [text |-> sign_dict[cls.id], conf |-> cls.conf]
              ELSE [text |-> None, conf |-> cls.conf]
    ELSE [text |-> None, conf |-> cls.conf]

recognize_sign(cls, threshold) ==
    IF cls.id # NoId /\ cls.conf >= threshold
    THEN IF cls.id \in DOMAIN sign_dict
         THEN [text |-> sign_dict[cls.id], conf |-> cls.conf]
         ELSE IF Truthy(cls.name)
              THEN [text |-> cls.name, conf |-> cls.conf]
              ELSE [text |-> None, conf |-> cls.conf]
    ELSE [text |-> None, conf |-> cls.conf]

(* ------------------------- text_to_speech.py -------------------------- *)
(* TextToSpeech.speak / speak_async: the queue after the call *)
speak_IgnoresEngine(queue, text) ==
    IF ~tts_obj_enabled \/ ~Truthy(text) THEN queue
    ELSE Append(queue, text)

(* speak without the test of the text *)
speak_AnyText(queue, text) ==
    IF ~tts_obj_enabled \/ ~tts_engine THEN queue
    ELSE Append(queue, text)

speak(queue, text) ==
    IF ~tts_obj_enabled \/ ~tts_engine \/ ~Truthy(text) THEN queue
    ELSE Append(queue, text)

(* ------------------------------ app.py -------------------------------- *)
(* The values one pass over the commit block leaves behind. *)
Same == [cur |-> current_sign, start |-> sign_start_time, last |-> last_sign_time,
         spoken |-> last_spoken_sign, sent |-> current_sentence,
         dsent |-> ds_current_sentence, queue |-> speech_queue,
         attempt |-> FALSE, added |-> FALSE, spoke |-> FALSE]

(* the same sign as before, held long enough *)
HeldLongEnough_Strictly(sign_text, now) ==
    /\ sign_text = current_sign
    /\ TruthyTime(sign_start_time)
    /\ (now - sign_start_time) > sign_hold_duration

HeldLongEnough_NoDuration(sign_text, now) ==
    /\ sign_text = current_sign
    /\ TruthyTime(sign_start_time)

HeldLongEnough_DefaultDuration(sign_text, now) ==
    /\ sign_text = current_sign
    /\ TruthyTime(sign_start_time)
    /\ (now - sign_start_time) >= DefaultHoldDuration

HeldLongEnough(sign_text, now) ==
    /\ sign_text = current_sign
    /\ TruthyTime(sign_start_time)
    /\ (now - sign_start_time) >= sign_hold_duration

(* the test that guards tts.speak_async *)
ShouldSpeak(sign_text) ==
    /\ tts_enabled /\ tts_engine
    /\ sign_text # last_spoken_sign

(* if sign_text: ... (the sign is present and passed the threshold) *)
CommitBlock_ResetOnlyOnAppend(sign_text, confidence, now) ==
    LET same == sign_text = current_sign
        held == HeldLongEnough(sign_text, now)
        added == held /\ add_sign(current_sentence, sign_text,
                                  confidence_threshold, confidence)
        spoke == added /\ ShouldSpeak(sign_text)
        sent == IF added THEN AppendSign(current_sentence, sign_text)
                ELSE current_sentence
    IN  [cur |-> IF same THEN (IF added THEN None ELSE current_sign) ELSE sign_text,
         start |-> IF same THEN (IF added THEN NoTime ELSE sign_start_time) ELSE now,
         last |-> now,
         spoken |-> IF spoke THEN sign_text ELSE last_spoken_sign,
         sent |-> sent,
         dsent |-> IF added THEN sent ELSE ds_current_sentence,
         queue |-> IF spoke THEN speak(speech_queue, sign_text) ELSE speech_queue,
         attempt |-> held, added |-> added, spoke |-> spoke]

CommitBlock_KeepsHoldStart(sign_text, confidence, now) ==
    LET same == sign_text = current_sign
        held == HeldLongEnough(sign_text, now)
        added == held /\ add_sign(current_sentence, sign_text,
                                  confidence_threshold, confidence)
        spoke == added /\ ShouldSpeak(sign_text)
        sent == IF added THEN AppendSign(current_sentence, sign_text)
                ELSE current_sentence
    IN  [cur |-> IF same THEN (IF held THEN None ELSE current_sign) ELSE sign_text,
         start |-> IF same THEN (IF held THEN NoTime ELSE sign_start_time)
                   ELSE IF TruthyTime(sign_start_time) THEN sign_start_time ELSE now,
         last |-> now,
         spoken |-> IF spoke THEN sign_text ELSE last_spoken_sign,
         sent |-> sent,
         dsent |-> IF added THEN sent ELSE ds_current_sentence,
         queue |-> IF spoke THEN speak(speech_queue, sign_text) ELSE speech_queue,
         attempt |-> held, added |-> added, spoke |-> spoke]

(* the commit block clearing only sign_start_time after an attempt *)
CommitBlock_KeepsCandidate(sign_text, confidence, now) ==
    LET same == sign_text = current_sign
        held == HeldLongEnough(sign_text, now)
        added == held /\ add_sign(current_sentence, sign_text,
                                  confidence_threshold, confidence)
        spoke == added /\ ShouldSpeak(sign_text)
        sent == IF added THEN AppendSign(current_sentence, sign_text)
                ELSE current_sentence
    IN  [cur |-> IF same THEN current_sign ELSE sign_text,
         start |-> IF same THEN (IF held THEN NoTime ELSE sign_start_time) ELSE now,
         last |-> now,
         spoken |-> IF spoke THEN sign_text ELSE last_spoken_sign,
         sent |-> sent,
         dsent |-> IF added THEN sent ELSE ds_current_sentence,
         queue |-> IF spoke THEN speak(speech_queue, sign_text) ELSE speech_queue,
         attempt |-> held, added |-> added, spoke |-> spoke]

(* the commit block copying the sentence only when the sign is spoken *)
CommitBlock_SentenceWhenSpoken(sign_text, confidence, now) ==
    LET same == sign_text = current_sign
        held == HeldLongEnough(sign_text, now)
        added == held /\ add_sign(current_sentence, sign_text,
                                  confidence_threshold, confidence)
        spoke == added /\ ShouldSpeak(sign_text)
        sent == IF added THEN AppendSign(current_sentence, sign_text)
                ELSE current_sentence
    IN  [cur |-> IF same THEN (IF held THEN None ELSE current_sign) ELSE sign_text,
         start |-> IF same THEN (IF held THEN NoTime ELSE sign_start_time) ELSE now,
         last |-> now,
         spoken |-> IF spoke THEN sign_text ELSE last_spoken_sign,
         sent |-> sent,
         dsent |-> IF spoke THEN sent ELSE ds_current_sentence,
         queue |-> IF spoke THEN speak(speech_queue, sign_text) ELSE speech_queue,
         attempt |-> held, added |-> added, spoke |-> spoke]

CommitBlock(sign_text, confidence, now) ==
    LET same == sign_text = current_sign
        held == HeldLongEnough(sign_text, now)
        added == held /\ add_sign(current_sentence, sign_text,
                                  confidence_threshold, confidence)
        spoke == added /\ ShouldSpeak(sign_text)
        sent == IF added THEN AppendSign(current_sentence, sign_text)
                ELSE current_sentence
    IN  [cur |-> IF same THEN (IF held THEN None ELSE current_sign) ELSE sign_text,
         start |-> IF same THEN (IF held THEN NoTime ELSE sign_start_time) ELSE now,
         last |-> now,
         spoken |-> IF spoke THEN sign_text ELSE last_spoken_sign,
         sent |-> sent,
         dsent |-> IF added THEN sent ELSE ds_current_sentence,
         queue |-> IF spoke THEN speak(speech_queue, sign_text) ELSE speech_queue,
         attempt |-> held, added |-> added, spoke |-> spoke]

(* current_time - last_sign_time > 0.5 *)
GapExceeded_Inclusive(now) == now - last_sign_time >= GapTimeout

GapExceeded(now) == now - last_sign_time > GapTimeout

(* else: no sign detected or low confidence *)
GapBlock(now) ==
    IF GapExceeded(now)
    THEN [Same EXCEPT !.cur = None, !.start = NoTime]
    ELSE Same

(* detect_signs(frame): the commit state after the frame *)
detect_signs(f, now) ==
    IF f.hand
    THEN LET r == recognize_sign(f.cls, confidence_threshold)
         IN  IF Truthy(r.text) THEN CommitBlock(r.text, r.conf, now)
             ELSE GapBlock(now)
    ELSE Same

(* what detect_signs returns to its caller: (sign_text, confidence) *)
detect_signs_result(f) ==
    IF f.hand THEN recognize_sign(f.cls, confidence_threshold)
    ELSE [text |-> None, conf |-> 0]

Apply(D) ==
    /\ current_sign' = D.cur
    /\ sign_start_time' = D.start
    /\ last_sign_time' = D.last
    /\ last_spoken_sign' = D.spoken
    /\ current_sentence' = D.sent
    /\ ds_current_sentence' = D.dsent
    /\ speech_queue' = D.queue

InBounds(D) == Len(D.sent) <= MaxSentence /\ Len(D.queue) <= MaxQueue

(* --------------------- bookkeeping for the claims --------------------- *)
(* ev: what the last step did.  lastQual: the sign of the last qualifying  *)
(* observation, since when only that sign was observed, and whether a      *)
(* frame without qualifying observation (with a hand: "nonqual", without:  *)
(* "nohand") was processed more than the gap timeout after it.  run: the    *)
(* current run of frames that all show one sign.                           *)
(* lastAttempt: the last add_sign call for the sign shown without break.   *)
Min(a, b) == IF a < b THEN a ELSE b

FrameEvent(op, f, D) ==
    LET r == detect_signs_result(f)
        qual == f.hand /\ Truthy(r.text)
    IN  [op |-> op,
         obs |-> IF ~f.hand THEN "nohand" ELSE IF qual THEN "qual" ELSE "nonqual",
         sign |-> IF qual THEN r.text ELSE None,
         attempt |-> D.attempt, added |-> D.added, spoke |-> D.spoke,
         from |-> current_sign]

NextAttempt(qual, s, D, now) ==
    IF D.attempt
    THEN [sign |-> s, time |-> now,
          prev |-> IF lastAttempt.sign = s THEN lastAttempt.time ELSE NoTime]
    ELSE IF qual /\ lastAttempt.sign = s THEN lastAttempt ELSE NoAttempt

GhostFrame(op, f, D, now) ==
    LET r == detect_signs_result(f)
        qual == f.hand /\ Truthy(r.text)
        s == r.text
    IN  /\ ev' = FrameEvent(op, f, D)
        /\ lastQual' =
             IF qual
             THEN [sign |-> s,
                   since |-> IF lastQual.sign = s THEN lastQual.since ELSE now,
                   gap |-> "no"]
             ELSE IF now - last_sign_time > GapTimeout
                  THEN [lastQual EXCEPT !.gap = IF f.hand THEN "nonqual" ELSE "nohand"]
             ELSE lastQual
        /\ run' =
             IF ~qual THEN NoRun
             ELSE IF run.sign = s
                  THEN [run EXCEPT !.adds = Min(2, @ + (IF D.added THEN 1 ELSE 0)),
                                   !.more = TRUE]
             ELSE IF current_sign # s
                  THEN [sign |-> s, start |-> now, prev |-> Last(current_sentence),
                        adds |-> 0, more |-> FALSE]
             ELSE NoRun
        /\ lastAttempt' = NextAttempt(qual, s, D, now)

GhostApi2(s, D, now) ==
    /\ ev' = [op |-> "api2", obs |-> "qual", sign |-> s,
              attempt |-> D.attempt, added |-> D.added, spoke |-> D.spoke,
              from |-> current_sign]
    /\ lastQual' = lastQual
    /\ run' = IF run.sign = s
              THEN [run EXCEPT !.adds = Min(2, @ + (IF D.added THEN 1 ELSE 0))]
              ELSE run
    /\ lastAttempt' = NextAttempt(TRUE, s, D, now)

(* ------------------- TextToSpeech after __init__ ---------------------- *)
(* the worker at the head of its loop, holding no text, self.speaking False *)
WorkerAtLoop == [pc |-> "while", text |-> None, n |-> 0, speaking |-> FALSE]

(* no thread is inside stop(); no thread is inside shutdown() *)
NoStopper == [pc |-> "idle", mark |-> 0]

NotShutDown == [pc |-> "idle"]

(* nothing was taken from the queue and nothing was spoken; workers counts *)
(* the worker threads started, stopmark is the number of entries enqueued   *)
(* before the latest call of stop() that has returned                      *)
NothingHeard(workers) ==
    [gone |-> {}, started |-> <<>>, workers |-> workers, stopmark |-> 0]

(* __init__: the worker is started iff the engine was initialized *)
InitWorker ==
    /\ stop_flag = FALSE
    /\ worker_thread = IF tts_engine /\ tts_obj_enabled THEN "alive" ELSE "none"
    /\ wk = WorkerAtLoop
    /\ stopper = NoStopper
    /\ shut = NotShutDown
    /\ heard = NothingHeard(IF tts_engine /\ tts_obj_enabled THEN 1 ELSE 0)

(* ------------------------------- Init --------------------------------- *)
(* ------------------- main.py: the command-line program ------------------- *)
(* pair: a run of main.py next to the web server's run, given the same      *)
(* frames, the same clock readings and the same key presses.  Its fields    *)
(* are main()'s locals, its converter's sentence and history, whether its   *)
(* TextToSpeech has an engine and is enabled, and the texts each of the     *)
(* two programs handed to speak_async ("said_main", "said_web").            *)
MainHoldDuration == 2
MainThreshold == 40
MainGapTimeout == 1
MainInitialLastSignTime == 0

(* main(): tts_enabled = True; tts = TextToSpeech(enabled=tts_enabled);     *)
(* "if not tts.enabled: tts_enabled = False"; then the loop's locals        *)
main_start(engine_ok) ==
    [current_sign |-> None, sign_start_time |-> NoTime,
     last_sign_time |-> MainInitialLastSignTime, last_spoken_sign |-> None,
     tts_enabled |-> engine_ok, sentence |-> <<>>, history |-> <<>>,
     engine |-> engine_ok, enabled |-> engine_ok,
     said_main |-> <<>>, said_web |-> <<>>]

(* TextToSpeech.speak on main()'s tts object: whether the text is queued *)
main_speak(m, text) == m.enabled /\ m.engine /\ Truthy(text)

(* "if tts_enabled and tts and tts.engine is not None and                   *)
(*     sign_text != last_spoken_sign"                                       *)
main_should_speak_IgnoresFlag(m, sign_text) ==
    m.engine /\ sign_text # m.last_spoken_sign

main_should_speak(m, sign_text) ==
    m.tts_enabled /\ m.engine /\ sign_text # m.last_spoken_sign

(* main loop, "if sign_text:" branch *)
main_commit(m, sign_text, confidence, now) ==
    IF sign_text = m.current_sign
    THEN IF TruthyTime(m.sign_start_time)
            /\ now - m.sign_start_time >= MainHoldDuration
         THEN LET added == add_sign(m.sentence, sign_text, MainThreshold, confidence)
                  spoke == added /\ main_should_speak(m, sign_text)
              IN  [m EXCEPT
                     !.sentence = IF added THEN AppendSign(@, sign_text) ELSE @,
                     !.said_main = IF spoke /\ main_speak(m, sign_text)
                                   THEN Append(@, sign_text) ELSE @,
                     !.last_spoken_sign = IF spoke THEN sign_text ELSE @,
                     !.sign_start_time = NoTime,
                     !.current_sign = None,
                     !.last_sign_time = now]
         ELSE [m EXCEPT !.last_sign_time = now]
    ELSE [m EXCEPT !.current_sign = sign_text, !.sign_start_time = now,
                   !.last_sign_time = now]

(* main loop: one camera frame, "if landmarks and len(landmarks) >= 21:" *)
main_frame(m, f, now) ==
    IF f.hand
    THEN LET r == recognize_sign(f.cls, MainThreshold)
         IN  IF Truthy(r.text) THEN main_commit(m, r.text, r.conf, now)
             ELSE IF now - m.last_sign_time > MainGapTimeout
                  THEN [m EXCEPT !.current_sign = None, !.sign_start_time = NoTime]
                  ELSE m
    ELSE m

(* key 'c' *)
main_key_c(m) ==
    [m EXCEPT !.history = clear_sentence(m.sentence, @),
              !.sentence = <<>>,
              !.last_spoken_sign = None]

(* key 'b' *)
main_key_b(m) ==
    [m EXCEPT !.sentence = remove_last_word(@),
              !.last_spoken_sign = None]

(* key 't'; init_ok: whether pyttsx3.init() succeeds when the handler calls  *)
(* tts._initialize_engine().  A failure sets tts.enabled = False, a success *)
(* leaves tts.enabled as it was.                                            *)
main_key_t(m, init_ok) ==
    IF ~m.tts_enabled
    THEN IF ~m.engine
         THEN [m EXCEPT !.engine = init_ok,
                        !.enabled = IF init_ok THEN @ ELSE FALSE,
                        !.tts_enabled = init_ok]
         ELSE [m EXCEPT !.tts_enabled = TRUE]
    ELSE [m EXCEPT !.tts_enabled = FALSE]

Init ==
    /\ clock = StartTime
    /\ current_sign = None
    /\ sign_start_time = NoTime
    /\ last_sign_time = InitialLastSignTime
    /\ last_spoken_sign = None
    /\ sign_hold_duration = DefaultHoldDuration
    /\ confidence_threshold = DefaultThreshold
    /\ tts_enabled = TRUE
    /\ ds_current_sentence = <<>>
    /\ current_sentence = <<>>
    /\ history = <<>>
    /\ sign_dict \in SignDicts
    /\ tts_engine \in BOOLEAN
    /\ pair = main_start(tts_engine)
    /\ tts_obj_enabled = tts_engine
    /\ speech_queue = <<>>
    /\ pc = Idle
    /\ th = [t \in Threads |-> ThreadIdle]
    /\ camera_lock = None
    /\ ev = NoEvent("init")
    /\ lastQual = NoQual
    /\ run = NoRun
    /\ lastAttempt = NoAttempt
    /\ pose = RestPose
    /\ gesture = NotRun
    /\ call = NoCall
    /\ InitWorker

(* ------------------------------ actions ------------------------------- *)
(* time.time() advances; inside one /api/detect request by at most MaxLag *)
Tick ==
    /\ clock < MaxTime
    /\ pc.at = "idle" \/ (Truthy(pc.sign_text) /\ clock - pc.t1 < MaxLag)
    /\ clock' = clock + 1
    /\ ev' = NoEvent("tick")
    /\ UNCHANGED <<detection_vars, config_vars, tts_enabled, ds_current_sentence,
                   converter_vars, sign_dict, pair, tts_vars, pc, thread_vars, unit_vars,
                   worker_vars, lastQual, run,
                   lastAttempt>>

(* generate_frames: one camera frame through detect_signs *)
VideoFrame(f) ==
    /\ pc.at = "idle"
    /\ LET D == detect_signs(f, clock)
       IN  /\ InBounds(D)
           /\ Apply(D)
           /\ GhostFrame("video", f, D, clock)
    /\ UNCHANGED <<clock, config_vars, tts_enabled, history, sign_dict, pair,
                   tts_engine, tts_obj_enabled, pc, thread_vars, unit_vars, worker_vars>>

(* detect_from_image, up to the return of its call of detect_signs *)
ApiDetect1(f) ==
    /\ pc.at = "idle"
    /\ LET D == detect_signs(f, clock)
           r == detect_signs_result(f)
       IN  /\ InBounds(D)
           /\ Apply(D)
           /\ GhostFrame("api1", f, D, clock)
           /\ pc' = [at |-> "api2", sign_text |-> r.text, confidence |-> r.conf,
                     t1 |-> clock]
    /\ UNCHANGED <<clock, config_vars, tts_enabled, history, sign_dict, pair,
                   tts_engine, tts_obj_enabled, thread_vars, unit_vars, worker_vars>>

(* detect_from_image, after detect_signs returned: "Update detection state" *)
ApiDetect2 ==
    /\ pc.at = "api2"
    /\ IF Truthy(pc.sign_text)
       THEN LET D == CommitBlock(pc.sign_text, pc.confidence, clock)
            IN  /\ InBounds(D)
                /\ Apply(D)
                /\ GhostApi2(pc.sign_text, D, clock)
       ELSE /\ Apply(Same)
            /\ ev' = NoEvent("api2")
            /\ UNCHANGED <<lastQual, run, lastAttempt>>
    /\ pc' = Idle
    /\ UNCHANGED <<clock, config_vars, tts_enabled, history, sign_dict, pair,
                   tts_engine, tts_obj_enabled, thread_vars, unit_vars, worker_vars>>

(* POST /api/sentence: converter.clear_sentence() and the state reset *)
ClearSentence_KeepsSpoken ==
    /\ pc.at = "idle"
    /\ Len(clear_sentence(current_sentence, history)) <= MaxHistory
    /\ history' = clear_sentence(current_sentence, history)
    /\ current_sentence' = <<>>
    /\ ds_current_sentence' = <<>>
    /\ ev' = NoEvent("clear")
    /\ run' = NoRun
    /\ UNCHANGED <<clock, detection_vars, config_vars,
                   tts_enabled, sign_dict, pair, tts_vars, pc, thread_vars, unit_vars,
                   worker_vars, lastQual,
                   lastAttempt>>

ClearSentence ==
    /\ pc.at = "idle"
    /\ Len(clear_sentence(current_sentence, history)) <= MaxHistory
    /\ history' = clear_sentence(current_sentence, history)
    /\ current_sentence' = <<>>
    /\ ds_current_sentence' = <<>>
    /\ last_spoken_sign' = None
    /\ ev' = NoEvent("clear")
    /\ run' = NoRun
    /\ UNCHANGED <<clock, current_sign, sign_start_time, last_sign_time, config_vars,
                   tts_enabled, sign_dict, pair, tts_vars, pc, thread_vars, unit_vars,
                   worker_vars, lastQual,
                   lastAttempt>>

(* POST /api/sentence/backspace: converter.remove_last_word() *)
RemoveLastWord_KeepsSpoken ==
    /\ pc.at = "idle"
    /\ current_sentence' = remove_last_word(current_sentence)
    /\ ds_current_sentence' = current_sentence'
    /\ ev' = NoEvent("backspace")
    /\ run' = NoRun
    /\ UNCHANGED <<clock, detection_vars, config_vars,
                   tts_enabled, history, sign_dict, pair, tts_vars, pc, thread_vars, unit_vars,
                   worker_vars,
                   lastQual, lastAttempt>>

RemoveLastWord ==
    /\ pc.at = "idle"
    /\ current_sentence' = remove_last_word(current_sentence)
    /\ ds_current_sentence' = current_sentence'
    /\ last_spoken_sign' = None
    /\ ev' = NoEvent("backspace")
    /\ run' = NoRun
    /\ UNCHANGED <<clock, current_sign, sign_start_time, last_sign_time, config_vars,
                   tts_enabled, history, sign_dict, pair, tts_vars, pc, thread_vars, unit_vars,
                   worker_vars,
                   lastQual, lastAttempt>>

(* TextToSpeech.stop: the queue after the call; engine.stop() may raise *)
stop(queue, raises) ==
    IF ~tts_engine THEN queue
    ELSE IF raises THEN queue ELSE <<>>

(* POST /api/tts/toggle *)
ToggleTts ==
    /\ pc.at = "idle"
    /\ tts_enabled' = ~tts_enabled
    /\ \E raises \in BOOLEAN :
         speech_queue' = IF ~tts_enabled' THEN stop(speech_queue, raises)
                         ELSE speech_queue
    /\ ev' = NoEvent("toggle")
    /\ UNCHANGED <<clock, detection_vars, config_vars, ds_current_sentence,
                   converter_vars, sign_dict, pair, tts_engine, tts_obj_enabled, pc,
                   thread_vars, unit_vars, worker_vars, lastQual, run, lastAttempt>>

(* POST /api/config *)
UpdateConfig(threshold, hold) ==
    /\ pc.at = "idle"
    /\ confidence_threshold' = threshold
    /\ sign_hold_duration' = hold
    /\ ev' = NoEvent("config")
    /\ run' = NoRun
    /\ UNCHANGED <<clock, detection_vars, tts_enabled, ds_current_sentence,
                   converter_vars, sign_dict, pair, tts_vars, pc, thread_vars, unit_vars,
                   worker_vars, lastQual,
                   lastAttempt>>

(* _speech_worker: one utterance taken from the queue and spoken *)
WorkerSpeak ==
    /\ tts_engine /\ tts_obj_enabled
    /\ speech_queue # <<>>
    /\ speech_queue' = Tail(speech_queue)
    /\ ev' = NoEvent("worker")
    /\ UNCHANGED <<clock, detection_vars, config_vars, tts_enabled,
                   ds_current_sentence, converter_vars, sign_dict, pair, tts_engine,
                   tts_obj_enabled, pc, thread_vars, unit_vars,
                   worker_vars, lastQual, run, lastAttempt>>

Next ==
    \/ Tick
    \/ \E f \in Frames : VideoFrame(f)
    \/ \E f \in Frames : ApiDetect1(f)
    \/ ApiDetect2
    \/ ClearSentence
    \/ RemoveLastWord
    \/ ToggleTts
    \/ WorkerSpeak

Spec == Init /\ [][Next]_vars

(* ---------------------- the threaded server --------------------------- *)
(* app.run(threaded=True): every request runs in a thread of its own.  The  *)
(* "video" thread is the /video_feed generator (generate_frames), the "api" *)
(* thread serves /api/detect; both run the commit block on the shared       *)
(* detection_state and TextConverter, one access to them per step.          *)
(* camera_lock is held around camera.read() alone.                          *)
InUpdate(t) == th[t].pc \notin {"idle", "cam", "begin"}

At(t, label) == [th[t] EXCEPT !.pc = label]

(* one step of the commit block in thread t: its next local state and the  *)
(* shared values it leaves                                                 *)
StepOf(t) ==
    LET me == th[t]
    IN  CASE me.pc = "cmp" ->
               [loc |-> At(t, IF me.sign = current_sign THEN "chk1" ELSE "new1"),
                D |-> Same]
          [] me.pc = "chk1" ->
               [loc |-> At(t, IF TruthyTime(sign_start_time) THEN "chk2" ELSE "last"),
                D |-> Same]
          [] me.pc = "chk2" ->
               [loc |-> IF sign_start_time = NoTime
                        THEN [ThreadIdle EXCEPT !.err = TRUE]
                        ELSE At(t, IF (me.now - sign_start_time) >= sign_hold_duration
                                   THEN "add1" ELSE "last"),
                D |-> Same]
          [] me.pc = "add1" ->
               [loc |-> At(t, IF add_sign(current_sentence, me.sign,
                                          confidence_threshold, me.conf)
                              THEN "add2" ELSE "rst1"),
                D |-> Same]
          [] me.pc = "add2" ->
               [loc |-> At(t, "spk1"),
                D |-> [Same EXCEPT !.sent = AppendSign(current_sentence, me.sign)]]
          [] me.pc = "spk1" ->
               IF ShouldSpeak(me.sign)
               THEN [loc |-> At(t, "spk2"),
                     D |-> [Same EXCEPT !.queue = speak(speech_queue, me.sign)]]
               ELSE [loc |-> At(t, "cpy"), D |-> Same]
          [] me.pc = "spk2" ->
               [loc |-> At(t, "cpy"), D |-> [Same EXCEPT !.spoken = me.sign]]
          [] me.pc = "cpy" ->
               [loc |-> At(t, "rst1"), D |-> [Same EXCEPT !.dsent = current_sentence]]
          [] me.pc = "rst1" ->
               [loc |-> At(t, "rst2"), D |-> [Same EXCEPT !.start = NoTime]]
          [] me.pc = "rst2" ->
               [loc |-> At(t, "last"), D |-> [Same EXCEPT !.cur = None]]
          [] me.pc = "new1" ->
               [loc |-> At(t, "new2"), D |-> [Same EXCEPT !.cur = me.sign]]
          [] me.pc = "new2" ->
               [loc |-> At(t, "last"), D |-> [Same EXCEPT !.start = me.now]]
          [] me.pc = "last" ->
               [loc |-> At(t, "ret"), D |-> [Same EXCEPT !.last = me.now]]
          [] me.pc = "gap" ->
               [loc |-> At(t, IF me.now - last_sign_time > GapTimeout
                              THEN "gap1" ELSE "ret"),
                D |-> Same]
          [] me.pc = "gap1" ->
               [loc |-> At(t, "gap2"), D |-> [Same EXCEPT !.cur = None]]
          [] me.pc = "gap2" ->
               [loc |-> At(t, "ret"), D |-> [Same EXCEPT !.start = NoTime]]
          [] OTHER -> [loc |-> me, D |-> Same]

ThreadFrame == <<clock, config_vars, tts_enabled, history, sign_dict, pair, tts_engine,
                 tts_obj_enabled, pc, ghost_vars, unit_vars, worker_vars>>

(* generate_frames: with camera_lock: ... camera.read() *)
T_Acquire(t) ==
    /\ t = "video" /\ th[t].pc = "idle"
    /\ camera_lock = None
    /\ camera_lock' = t
    /\ th' = [th EXCEPT ![t] = At(t, "cam")]
    /\ Apply(Same)
    /\ UNCHANGED ThreadFrame

T_Read(t) ==
    /\ th[t].pc = "cam" /\ camera_lock = t
    /\ camera_lock' = None
    /\ th' = [th EXCEPT ![t] = At(t, "begin")]
    /\ Apply(Same)
    /\ UNCHANGED ThreadFrame

(* detect_signs up to current_time = time.time(): the frame is classified *)
T_Begin(t, f) ==
    /\ \/ t = "api" /\ th[t].pc = "idle"
       \/ th[t].pc = "begin"
    /\ LET r == detect_signs_result(f)
       IN  th' = [th EXCEPT ![t] =
                    [pc |-> IF ~f.hand THEN "ret"
                            ELSE IF Truthy(r.text) THEN "cmp" ELSE "gap",
                     blk |-> "ds", sign |-> r.text, conf |-> r.conf,
                     now |-> clock, err |-> FALSE]]
    /\ Apply(Same)
    /\ UNCHANGED <<camera_lock, ThreadFrame>>

(* one access of the commit block to the shared state *)
T_Step(t) ==
    /\ th[t].pc \notin {"idle", "cam", "begin", "ret"}
    /\ LET r == StepOf(t)
       IN  /\ Len(r.D.sent) <= MaxSentence /\ Len(r.D.queue) <= MaxQueue + 1
           /\ th' = [th EXCEPT ![t] = r.loc]
           /\ Apply(r.D)
    /\ UNCHANGED <<camera_lock, ThreadFrame>>

(* the block is left: detect_from_image goes on to its own copy of it *)
T_Return(t) ==
    /\ th[t].pc = "ret"
    /\ th' = [th EXCEPT ![t] =
                IF t = "api" /\ th[t].blk = "ds" /\ Truthy(th[t].sign)
                THEN [th[t] EXCEPT !.pc = "cmp", !.blk = "dup", !.now = clock]
                ELSE ThreadIdle]
    /\ Apply(Same)
    /\ UNCHANGED <<camera_lock, ThreadFrame>>

TickT ==
    /\ clock < StartTime + ThreadHorizon
    /\ clock' = clock + 1
    /\ UNCHANGED <<detection_vars, config_vars, tts_enabled, ds_current_sentence,
                   converter_vars, sign_dict, pair, tts_vars, pc, thread_vars, unit_vars,
                   worker_vars, ghost_vars>>

NextThreads ==
    \/ TickT
    \/ \E t \in Threads : T_Acquire(t)
    \/ \E t \in Threads : T_Read(t)
    \/ \E t \in Threads, f \in Frames : T_Begin(t, f)
    \/ \E t \in Threads : T_Step(t)
    \/ \E t \in Threads : T_Return(t)
    \/ ClearSentence
    \/ RemoveLastWord

SpecThreads == Init /\ [][NextThreads]_vars

(* ------------- frames under a changing configuration ----------------- *)
(* The video loop and /api/detect with POST /api/config between frames.   *)
NextConfig ==
    \/ Tick
    \/ \E f \in Frames : VideoFrame(f)
    \/ \E f \in Frames : ApiDetect1(f)
    \/ ApiDetect2
    \/ \E threshold \in Thresholds, hold \in HoldDurations : UpdateConfig(threshold, hold)

SpecConfig == Init /\ [][NextConfig]_vars

(* ------------------- the sentence buffer by itself -------------------- *)
(* The methods of TextConverter called directly, in any order: add_sign as *)
(* the commit block calls it, clear_sentence and remove_last_word as the   *)
(* handlers call them.                                                     *)
ConverterFrame == <<clock, detection_vars, config_vars, tts_enabled, ds_current_sentence,
                    sign_dict, pair, tts_vars, pc, thread_vars, lastQual, lastAttempt,
                    pose, gesture, worker_vars>>

(* TextConverter.add_sign(sign_text, min_confidence, confidence) *)
ConvAddSign(sign_text, min_confidence, confidence) ==
    /\ pc.at = "idle"
    /\ LET ret == add_sign(current_sentence, sign_text, min_confidence, confidence)
       IN  /\ current_sentence' = IF ret THEN AppendSign(current_sentence, sign_text)
                                  ELSE current_sentence
           /\ Len(current_sentence') <= MaxSentence
           /\ call' = [op |-> "add_sign", sign_text |-> sign_text,
                       min_confidence |-> min_confidence, confidence |-> confidence,
                       ret |-> ret]
    /\ ev' = NoEvent("add_sign")
    /\ run' = NoRun
    /\ UNCHANGED <<history, ConverterFrame>>

(* TextConverter.clear_sentence() *)
ConvClearSentence ==
    /\ pc.at = "idle"
    /\ Len(clear_sentence(current_sentence, history)) <= MaxCleared
    /\ history' = clear_sentence(current_sentence, history)
    /\ current_sentence' = <<>>
    /\ call' = [NoCall EXCEPT !.op = "clear_sentence"]
    /\ ev' = NoEvent("clear_sentence")
    /\ run' = NoRun
    /\ UNCHANGED ConverterFrame

(* TextConverter.remove_last_word() *)
ConvRemoveLastWord ==
    /\ pc.at = "idle"
    /\ current_sentence' = remove_last_word(current_sentence)
    /\ call' = [NoCall EXCEPT !.op = "remove_last_word"]
    /\ ev' = NoEvent("remove_last_word")
    /\ run' = NoRun
    /\ UNCHANGED <<history, ConverterFrame>>

NextConverter ==
    \/ \E sign_text \in Tokens, confidence \in Confidences :
         ConvAddSign(sign_text, DefaultThreshold, confidence)
    \/ ConvClearSentence
    \/ ConvRemoveLastWord

SpecConverter == Init /\ [][NextConverter]_vars

(* --------------------- the classifier on one pose --------------------- *)
InitGesture ==
    /\ clock = StartTime
    /\ current_sign = None
    /\ sign_start_time = NoTime
    /\ last_sign_time = InitialLastSignTime
    /\ last_spoken_sign = None
    /\ sign_hold_duration = DefaultHoldDuration
    /\ confidence_threshold = DefaultThreshold
    /\ tts_enabled = TRUE
    /\ ds_current_sentence = <<>>
    /\ current_sentence = <<>>
    /\ history = <<>>
    /\ sign_dict \in SignDicts
    /\ tts_engine = TRUE
    /\ pair = main_start(tts_engine)
    /\ tts_obj_enabled = tts_engine
    /\ speech_queue = <<>>
    /\ pc = Idle
    /\ th = [t \in Threads |-> ThreadIdle]
    /\ camera_lock = None
    /\ ev = NoEvent("init")
    /\ lastQual = NoQual
    /\ run = NoRun
    /\ lastAttempt = NoAttempt
    /\ pose \in Poses
    /\ gesture = NotRun
    /\ call = NoCall
    /\ InitWorker

(* GestureRecognizer.recognize_gesture(landmarks) *)
RecognizeGesture ==
    /\ ~gesture.done
    /\ gesture' = [done |-> TRUE, res |-> recognize_gesture(pose)]
    /\ UNCHANGED <<clock, detection_vars, config_vars, tts_enabled, ds_current_sentence,
                   converter_vars, sign_dict, pair, tts_vars, pc, thread_vars, ghost_vars,
                   pose, call, worker_vars>>

NextGesture == RecognizeGesture

SpecGesture == InitGesture /\ [][NextGesture]_vars

(* ------------------------------ claims -------------------------------- *)
Appends == Len(current_sentence') > Len(current_sentence)

FrameStep == ev'.op \in {"video", "api1", "api2"}

(* C1: whenever a pass over the commit block appends a token s at time     *)
(* now, the state on entry is Holding(s, t0) with now - t0 >= hold         *)
(* duration, and since t0 no qualifying observation showed another sign.   *)
C1_CommitOnlyAfterHold ==
    [][Appends =>
         LET s == Last(current_sentence')
         IN  /\ FrameStep
             /\ current_sentence' = Append(current_sentence, s)
             /\ current_sign = s
             /\ TruthyTime(sign_start_time)
             /\ clock - sign_start_time >= sign_hold_duration
             /\ lastQual.sign = s
             /\ lastQual.since <= sign_start_time]_vars

C1_Witness ==
    /\ ev.op = "video" /\ ev.added
    /\ lastQual.sign = ev.sign
    /\ clock - lastQual.since >= sign_hold_duration

(* C2: once a frame without qualifying observation has been processed more *)
(* than 0.5 s after the last qualifying observation, the candidate is       *)
(* abandoned: the state is Idle until the next qualifying observation, so   *)
(* that observation starts a new hold at its own time stamp.                *)
C2_GapAbandonsHold ==
    lastQual.gap # "no" => current_sign = None /\ sign_start_time = NoTime

(* C3: the sentence never holds two identical adjacent tokens. *)
C3_NoAdjacentDuplicates ==
    \A i \in 1..(Len(current_sentence) - 1) :
        current_sentence[i] # current_sentence[i + 1]

C3_Witness ==
    /\ Len(current_sentence) = 3
    /\ current_sentence[1] = current_sentence[3]
    /\ ev.added

(* C4: a run of frames that all show the sign s, begun when s was not the   *)
(* held candidate and the sentence did not end in s, appends s exactly once *)
(* as soon as a frame of the run comes hold_duration or more after its      *)
(* first frame, and never appends a second s however long it goes on.       *)
C4_OneTokenPerHeldSign ==
    (run.sign # None /\ run.prev # run.sign) =>
        /\ run.adds <= 1
        /\ (run.more /\ last_sign_time - run.start >= sign_hold_duration) =>
               (run.adds = 1 /\ Last(current_sentence) = run.sign)

C4_Witness ==
    /\ run.sign # None /\ run.prev # run.sign
    /\ run.adds = 1
    /\ lastAttempt.sign = run.sign /\ lastAttempt.prev # NoTime
    /\ ev.attempt /\ ~ev.added

(* C5: a run of frames showing s2, begun when the sentence ended in a       *)
(* different token s1, puts s2 directly after s1 once it has lasted         *)
(* hold_duration; every commit appends at the end of the sentence.          *)
C5_CommitOrder ==
    (run.sign # None /\ run.prev \notin {None, run.sign}
       /\ run.more /\ last_sign_time - run.start >= sign_hold_duration) =>
        /\ Len(current_sentence) >= 2
        /\ current_sentence[Len(current_sentence) - 1] = run.prev
        /\ current_sentence[Len(current_sentence)] = run.sign
        /\ run.adds = 1

C5_Witness ==
    /\ current_sentence = <<"Hello", "Stop">>
    /\ run.sign = "Stop" /\ run.prev = "Hello" /\ run.adds = 1
    /\ ev.added

(* C6: a pass that observes the held sign with now - hold_start_time >=     *)
(* hold_duration leaves the state Idle whether or not add_sign appended,    *)
(* and comes hold_duration or more after the previous add_sign call for     *)
(* the same sign shown without break.                                       *)
C6_IdleAfterAttempt ==
    [][(/\ FrameStep /\ ev'.obs = "qual"
        /\ ev'.sign = current_sign
        /\ TruthyTime(sign_start_time)
        /\ clock - sign_start_time >= sign_hold_duration)
       =>
       (/\ current_sign' = None /\ sign_start_time' = NoTime
        /\ lastAttempt.sign = ev'.sign =>
               clock - lastAttempt.time >= sign_hold_duration)]_vars

C6_Witness ==
    /\ ev.attempt /\ ~ev.added
    /\ current_sign = None /\ sign_start_time = NoTime
    /\ lastAttempt.sign = ev.sign /\ lastAttempt.prev # NoTime
    /\ lastAttempt.time - lastAttempt.prev >= sign_hold_duration

(* C7: on every successful append the sign is enqueued for speech iff it    *)
(* differs from last_spoken_sign, and after the step last_spoken_sign is    *)
(* the appended sign, whatever toggling of speech came before.  (Stated for *)
(* a run with a speech backend; the enqueueing half for appends made while  *)
(* speech is switched on.)                                                  *)
C7_SpeakIffNew ==
    [][(Appends /\ tts_engine) =>
         LET s == Last(current_sentence')
         IN  /\ tts_enabled =>
                  ((speech_queue' = Append(speech_queue, s)) <=> (s # last_spoken_sign))
             /\ last_spoken_sign' = s]_vars

(* C8: a frame without a hand is handled like a low-confidence frame: more  *)
(* than 0.5 s after the last qualifying observation it leaves the state     *)
(* Idle, otherwise it leaves the state unchanged; it never commits.         *)
C8_NoHandLikeLowConfidence ==
    [][(ev'.op \in {"video", "api1"} /\ ev'.obs = "nohand") =>
         /\ current_sentence' = current_sentence
         /\ IF clock - last_sign_time > GapTimeout
            THEN current_sign' = None /\ sign_start_time' = NoTime
            ELSE UNCHANGED <<current_sign, sign_start_time>>]_vars

(* C9: a processed frame advances the commit state machine by one pass: in  *)
(* /api/detect, what follows the return of detect_signs changes neither the *)
(* candidate, the hold start, the sentence nor last_spoken_sign.            *)
C9_OnePassPerFrame ==
    [][pc.at = "api2" =>
         UNCHANGED <<current_sign, sign_start_time, last_spoken_sign,
                     current_sentence>>]_vars

(* C10: the per-frame updates of the video loop and of /api/detect on the   *)
(* shared commit state and sentence buffer are serialized: two threads are  *)
(* never inside the commit block at the same time.                          *)
C10_UpdatesSerialized ==
    Cardinality({t \in Threads : InUpdate(t)}) <= 1

(* ---------------------- the classifier's claims ----------------------- *)
(* The ordered rule table of the classifier's description: rule i matches   *)
(* on the set of extended fingers and the geometric side conditions.        *)
Extended(landmarks) ==
    {k \in {"thumb", "index", "middle", "ring", "pinky"} : analyze_fingers(landmarks)[k]}

RuleTable(landmarks) ==
    LET E == Extended(landmarks)
        h == hand_size_sq(landmarks)
        ti == thumb_index_dist_sq(landmarks)
        im == index_middle_dist_sq(landmarks)
        tip == landmarks[THUMB_TIP]
        wrist == landmarks[WRIST]
    IN  << [match |-> E = {"thumb"} /\ tip.y < wrist.y, res |-> Good],
           [match |-> E \subseteq {"thumb"} /\ tip.y - wrist.y > 30, res |-> Bad],
           [match |-> /\ E = {"thumb", "index"} /\ 25 * ti < h
                      /\ \A k \in {MIDDLE_TIP, RING_TIP, PINKY_TIP} :
                            landmarks[k].y > landmarks[k - 2].y,
            res |-> Yes],
           [match |-> E = {"index", "middle"} /\ 25 * im > h, res |-> Victory],
           [match |-> E = {"index"}, res |-> More],
           [match |-> E = {}, res |-> Stop],
           [match |-> Cardinality(E) = 5, res |-> Hello],
           [match |-> E = {"index", "middle", "ring"}, res |-> Less],
           [match |-> E = {"index", "middle", "ring", "pinky"}, res |-> Water],
           [match |-> E = {"thumb", "index", "pinky"}, res |-> ILoveYou],
           [match |-> E = {"thumb"} /\ Abs(tip.x - wrist.x) < 30, res |-> LetterA],
           [match |-> E = {"index", "middle", "ring", "pinky"} /\ 100 * im < 9 * h,
            res |-> LetterB],
           [match |-> E = {"thumb", "index"} /\ 25 * ti > h /\ 25 * ti < 4 * h,
            res |-> LetterC] >>

Matching(table) == {i \in 1..Len(table) : table[i].match}

FirstMatch(table) ==
    IF Matching(table) = {} THEN NoMatch
    ELSE table[CHOOSE i \in Matching(table) : \A j \in Matching(table) : i <= j].res

WellFormedPose(landmarks) == LenLandmarks(landmarks) = 21

ScaleValid(landmarks) ==
    WellFormedPose(landmarks) /\ hand_size_sq(landmarks) >= 10 * 10

(* C11: for every well-formed 21-landmark pose recognize_gesture returns    *)
(* the result of the first matching rule of the 13-rule ordered table, or   *)
(* no-match when the scale is below 10 px or no rule matches; the           *)
(* confidence lies within [0, 1] (0 .. 100 percent).                        *)
C11_FirstMatchingRule ==
    (gesture.done /\ WellFormedPose(pose)) =>
        /\ gesture.res = IF ScaleValid(pose) THEN FirstMatch(RuleTable(pose)) ELSE NoMatch
        /\ gesture.res.conf \in 0..100

(* a pose on which two rules of the table match and the earlier one wins *)
C11_Witness ==
    /\ gesture.done /\ ScaleValid(pose)
    /\ Cardinality(Matching(RuleTable(pose))) >= 2
    /\ gesture.res = Good

(* C12: a hand-scale below 10 px gives no-match whatever the fingers and    *)
(* landmarks are: the scale gate comes before every rule.                   *)
C12_ScaleGated ==
    (gesture.done /\ WellFormedPose(pose) /\ hand_size_sq(pose) < 10 * 10) =>
        gesture.res = NoMatch

(* a pose below the scale on which a rule of the table matches *)
C12_Witness ==
    /\ gesture.done /\ WellFormedPose(pose) /\ ~ScaleValid(pose)
    /\ Matching(RuleTable(pose)) # {}
    /\ gesture.res = NoMatch

(* C13: every pose with all five fingers closed and a valid scale is        *)
(* classified (10, "Stop", 0.90).                                           *)
C13_AllClosedIsStop ==
    (gesture.done /\ ScaleValid(pose) /\ Extended(pose) = {}) => gesture.res = Stop

(* C13 as amended: such a pose is classified Stop unless the thumb tip lies *)
(* more than 30 px below the wrist, and then it is classified               *)
(* (9, "Bad", 0.85).                                                        *)
C13_AllClosedIsStopOrBad ==
    (gesture.done /\ ScaleValid(pose) /\ Extended(pose) = {}) =>
        gesture.res = IF pose[THUMB_TIP].y - pose[WRIST].y > 30 THEN Bad ELSE Stop

(* an all-closed pose with the thumb tip exactly 30 px below the wrist *)
C13_Witness ==
    /\ gesture.done /\ ScaleValid(pose) /\ Extended(pose) = {}
    /\ pose[THUMB_TIP].y - pose[WRIST].y = 30
    /\ gesture.res = Stop

(* C14: every pose with all five fingers extended and a valid scale is      *)
(* classified (0, "Hello", 0.90); no earlier rule captures it.              *)
C14_AllExtendedIsHello ==
    (gesture.done /\ ScaleValid(pose) /\ Cardinality(Extended(pose)) = 5) =>
        gesture.res = Hello

(* an all-extended pose whose thumb tip is above the wrist, as rule 1 asks *)
C14_Witness ==
    /\ gesture.done /\ ScaleValid(pose) /\ Cardinality(Extended(pose)) = 5
    /\ pose[THUMB_TIP].y < pose[WRIST].y
    /\ gesture.res = Hello

(* ------------------- frame effects and the buffer --------------------- *)
(* C15: a frame with 21 landmarks and no qualifying observation (no sign,   *)
(* or confidence below the threshold): more than 0.5 s after the last       *)
(* qualifying observation the state becomes Idle, otherwise the commit      *)
(* state is unchanged; sentence, history and last_spoken_sign stay as they  *)
(* are and nothing is enqueued for speech.                                  *)
C15_NonQualifyingFrame ==
    [][(FrameStep /\ ev'.obs = "nonqual") =>
         /\ IF clock - last_sign_time > GapTimeout
            THEN current_sign' = None /\ sign_start_time' = NoTime
            ELSE UNCHANGED <<current_sign, sign_start_time>>
         /\ UNCHANGED <<last_sign_time, current_sentence, history, last_spoken_sign,
                        speech_queue>>]_vars

(* a frame below the raised threshold has dropped the candidate of a hold   *)
(* that followed a committed token                                          *)
C15_Witness ==
    /\ ev.op \in {"video", "api1"} /\ ev.obs = "nonqual" /\ ev.from # None
    /\ confidence_threshold > 90
    /\ lastQual.gap = "nonqual"
    /\ current_sign = None /\ sign_start_time = NoTime
    /\ current_sentence # <<>>

(* C16: a qualifying observation of s2 in state Idle or Holding(s, t0) with *)
(* s # s2 leaves Holding(s2, now) and last_sign_time = now; nothing is      *)
(* appended, however long s had been held.                                  *)
C16_NewSignStartsHold ==
    [][(FrameStep /\ ev'.obs = "qual" /\ ev'.sign # current_sign) =>
         /\ current_sign' = ev'.sign
         /\ sign_start_time' = clock
         /\ last_sign_time' = clock
         /\ UNCHANGED <<current_sentence, history, speech_queue>>]_vars

(* a hold of another sign was in progress and the frame replaced it by a   *)
(* hold that starts now; nothing was appended                               *)
C16_Witness ==
    /\ ev.op = "video" /\ ev.obs = "qual"
    /\ ev.from # None /\ ev.from # ev.sign
    /\ run.sign = ev.sign /\ run.start = clock
    /\ lastQual.sign = ev.sign /\ lastQual.since = clock
    /\ current_sign = ev.sign /\ sign_start_time = clock
    /\ last_sign_time = clock
    /\ current_sentence = <<>>

(* C17: add_sign(token) returns true and appends token as the new last     *)
(* element iff the token is non-empty, its confidence meets min_confidence  *)
(* and the sentence is empty or ends with another token; in every other     *)
(* case it returns false and leaves the sentence unchanged.  The history    *)
(* is never touched.                                                        *)
C17_AddSignContract ==
    [][ev'.op = "add_sign" =>
         LET token == call'.sign_text
             accept == /\ token # None /\ token # ""
                       /\ call'.confidence >= call'.min_confidence
                       /\ (current_sentence = <<>> \/ Last(current_sentence) # token)
         IN  /\ call'.ret = accept
             /\ current_sentence' = IF accept THEN current_sentence \o <<token>>
                                    ELSE current_sentence
             /\ history' = history]_vars

(* a token of sufficient confidence rejected because it repeats the last one *)
C17_Witness ==
    /\ ev.op = "add_sign" /\ ~call.ret
    /\ call.sign_text = Last(current_sentence)
    /\ call.confidence = call.min_confidence
    /\ Len(current_sentence) = 2

(* C18: clear_sentence on a non-empty sentence appends exactly one entry,   *)
(* the space-joined sentence, at the end of the history and empties the     *)
(* sentence; on an empty sentence it changes nothing.  Clearing twice in a  *)
(* row adds at most one entry.                                              *)
C18_ClearSentence ==
    [][ev'.op = "clear_sentence" =>
         /\ current_sentence' = <<>>
         /\ history' = IF current_sentence # <<>>
                       THEN history \o <<Join(current_sentence)>>
                       ELSE history
         /\ (ev.op = "clear_sentence" => history' = history)]_vars

(* "Hello Stop" was cleared after "Hello" *)
C18_Witness ==
    /\ ev.op = "clear_sentence"
    /\ current_sentence = <<>>
    /\ history = << <<"Hello">>, <<"Hello", " ", "Stop">> >>

(* C19: remove_last_word removes exactly the last token of a non-empty      *)
(* sentence, leaves the prefix and the history unchanged, and is a no-op on *)
(* an empty sentence.                                                       *)
C19_RemoveLastWord ==
    [][ev'.op = "remove_last_word" =>
         /\ history' = history
         /\ IF current_sentence = <<>> THEN current_sentence' = <<>>
            ELSE /\ Len(current_sentence') = Len(current_sentence) - 1
                 /\ \A i \in 1..Len(current_sentence') :
                       current_sentence'[i] = current_sentence[i]]_vars

(* the last of three tokens was removed while the history holds an entry *)
C19_Witness ==
    /\ ev.op = "remove_last_word"
    /\ current_sentence = <<"Hello", "Stop">>
    /\ history # <<>>

(* C20: the history is append-only and oldest-first: every earlier history  *)
(* is a prefix of the current one, and no entry is the empty string.        *)
C20_HistoryAppendOnly ==
    [][/\ Len(history) <= Len(history')
       /\ \A i \in 1..Len(history) : history'[i] = history[i]
       /\ \A i \in 1..Len(history') : history'[i] # <<>>]_vars

(* two different sentences were cleared and a third is being built *)
C20_Witness ==
    /\ Len(history) = 2 /\ history[1] # history[2]
    /\ current_sentence # <<>>

(* --------------- the control operations between frames ---------------- *)
(* The video loop with the clear, backspace, speech-toggle and             *)
(* configuration requests arriving between frames.  The configuration      *)
(* requests here carry the confidence_threshold key only.                  *)
ControlHorizon == 4

NextControls ==
    \/ clock < StartTime + ControlHorizon /\ Tick
    \/ \E f \in Frames : VideoFrame(f)
    \/ ClearSentence
    \/ RemoveLastWord
    \/ ToggleTts
    \/ \E threshold \in Thresholds : UpdateConfig(threshold, sign_hold_duration)

SpecControls == Init /\ [][NextControls]_vars

(* a step of one of the four control operations *)
ControlStep == ev'.op \in {"clear", "backspace", "toggle", "config"}

(* C21 as stated: clear, backspace, speech-toggle and configuration leave   *)
(* the candidate sign, the hold start, the last observation time and       *)
(* last_spoken_sign unchanged.                                             *)
C21_ControlsLeaveCommitState ==
    [][ControlStep => UNCHANGED detection_vars]_vars

(* C21, amended: the four control operations leave the candidate sign, the  *)
(* hold start and the last observation time unchanged; speech-toggle and   *)
(* configuration also leave last_spoken_sign unchanged, while clear and     *)
(* backspace reset last_spoken_sign to None.                               *)
C21_ControlsResetOnlySpoken ==
    [][ControlStep =>
         /\ UNCHANGED <<current_sign, sign_start_time, last_sign_time>>
         /\ IF ev'.op \in {"clear", "backspace"}
            THEN last_spoken_sign' = None
            ELSE last_spoken_sign' = last_spoken_sign]_vars

(* a committed sentence was cleared during a hold: the hold is still there  *)
(* and the speech dedup is reset                                           *)
C21_Witness ==
    /\ ev.op = "clear"
    /\ history # <<>>
    /\ current_sign # None /\ TruthyTime(sign_start_time)
    /\ last_spoken_sign = None

(* ---------------- TextToSpeech with its worker thread ----------------- *)
(* The methods of TextToSpeech step by step, interleaved with the worker   *)
(* thread: speak_async, stop() as the speech toggle calls it, the engine   *)
(* retry of the command-line toggle, and shutdown() as cleanup calls it.   *)
MaxPending == 2

MaxUtterances == 2

(* the number of entries ever put on the queue *)
Enqueued == Cardinality(heard.gone) + Len(speech_queue)

RECURSIVE Ascending(_)
Ascending(S) ==
    IF S = {} THEN <<>>
    ELSE LET m == CHOOSE x \in S : \A y \in S : x <= y
         IN  <<m>> \o Ascending(S \ {m})

(* the pending entries, each named by its place in the order of enqueueing *)
PendingIds == Ascending((1..Enqueued) \ heard.gone)

Max(a, b) == IF a > b THEN a ELSE b

(* queue.Queue.get / get_nowait: the entry taken, its place, and the rest *)
queue_get_Newest(queue) ==
    [item |-> queue[Len(queue)], pos |-> Len(queue),
     rest |-> SubSeq(queue, 1, Len(queue) - 1)]

queue_get(queue) == [item |-> Head(queue), pos |-> 1, rest |-> Tail(queue)]

(* the record of the queue after the entry at place pos was taken *)
Taken(pos) == [heard EXCEPT !.gone = @ \cup {PendingIds[pos]}]

(* what the methods of TextToSpeech and the worker leave alone *)
SpeechFrame == <<clock, detection_vars, config_vars, ds_current_sentence,
                 converter_vars, sign_dict, pair, pc, thread_vars, unit_vars,
                 lastQual, run, lastAttempt>>

(* tts.speak_async(text) *)
SpeakAsync_WaitsForWorker(text) ==
    /\ wk.pc # "running"
    /\ Len(speech_queue) < MaxPending /\ Enqueued < MaxUtterances
    /\ speech_queue' = speak(speech_queue, text)
    /\ ev' = NoEvent("speak")
    /\ UNCHANGED <<SpeechFrame, tts_enabled, tts_engine, tts_obj_enabled, worker_vars>>

SpeakAsync(text) ==
    /\ Len(speech_queue) < MaxPending /\ Enqueued < MaxUtterances
    /\ speech_queue' = speak(speech_queue, text)
    /\ ev' = NoEvent("speak")
    /\ UNCHANGED <<SpeechFrame, tts_enabled, tts_engine, tts_obj_enabled, worker_vars>>

(* stop() returns: the entries enqueued before its call are remembered *)
StopReturns(mark) ==
    /\ stopper' = NoStopper
    /\ heard' = [heard EXCEPT !.stopmark = Max(@, mark)]
    /\ ev' = NoEvent("stop_return")

(* speech toggled off: the flag is cleared and tts.stop() is entered; with  *)
(* no engine stop() returns at once                                        *)
StopCall ==
    /\ stopper.pc = "idle"
    /\ tts_enabled
    /\ tts_enabled' = FALSE
    /\ IF ~tts_engine
       THEN StopReturns(Enqueued)
       ELSE /\ stopper' = [pc |-> "engine_stop", mark |-> Enqueued]
            /\ ev' = NoEvent("stop_call")
            /\ heard' = heard
    /\ UNCHANGED <<SpeechFrame, tts_vars, stop_flag, worker_thread, wk, shut>>

(* stop(): self.engine.stop(); an exception ends stop() without draining *)
StopEngine(raises) ==
    /\ stopper.pc = "engine_stop"
    /\ IF raises \/ ~tts_engine
       THEN StopReturns(stopper.mark)
       ELSE /\ stopper' = [stopper EXCEPT !.pc = "drain"]
            /\ ev' = NoEvent("stop_engine")
            /\ heard' = heard
    /\ UNCHANGED <<SpeechFrame, tts_enabled, tts_vars, stop_flag, worker_thread, wk,
                   shut>>

(* stop(): one turn of "while not self.speech_queue.empty(): get_nowait()" *)
StopDrain ==
    /\ stopper.pc = "drain"
    /\ IF speech_queue = <<>>
       THEN /\ StopReturns(stopper.mark)
            /\ speech_queue' = speech_queue
       ELSE /\ speech_queue' = queue_get(speech_queue).rest
            /\ heard' = Taken(queue_get(speech_queue).pos)
            /\ ev' = NoEvent("stop_drain")
            /\ stopper' = stopper
    /\ UNCHANGED <<SpeechFrame, tts_enabled, tts_engine, tts_obj_enabled, stop_flag,
                   worker_thread, wk, shut>>

(* speech toggled on: only the flag changes *)
ToggleOn ==
    /\ ~tts_enabled
    /\ tts_enabled' = TRUE
    /\ ev' = NoEvent("toggle")
    /\ UNCHANGED <<SpeechFrame, tts_vars, worker_vars>>

(* _start_worker() after the engine was initialized again *)
start_worker(enabled, engine) == enabled /\ engine

(* main.py, key 't' with no engine: _initialize_engine() is retried and,    *)
(* if it gave an engine, _start_worker() is called                         *)
ToggleOnReinit(ok) ==
    /\ ~tts_enabled
    /\ ~tts_engine /\ shut.pc = "idle"
    /\ tts_engine' = ok
    /\ tts_obj_enabled' = (ok /\ tts_obj_enabled)
    /\ tts_enabled' = ok
    /\ IF ok /\ start_worker(tts_obj_enabled', tts_engine')
       THEN /\ stop_flag' = FALSE
            /\ worker_thread' = "alive"
            /\ wk' = WorkerAtLoop
            /\ heard' = [heard EXCEPT !.workers = @ + 1]
       ELSE UNCHANGED <<stop_flag, worker_thread, wk, heard>>
    /\ ev' = NoEvent("reinit")
    /\ UNCHANGED <<SpeechFrame, speech_queue, stopper, shut>>

(* shutdown(): self.stop_flag = True, then self.stop() is entered *)
ShutdownCall ==
    /\ shut.pc = "idle"
    /\ stop_flag' = TRUE
    /\ shut' = [pc |-> IF tts_engine THEN "engine_stop" ELSE "alive"]
    /\ ev' = NoEvent("shutdown")
    /\ UNCHANGED <<SpeechFrame, tts_enabled, tts_vars, worker_thread, wk, stopper,
                   heard>>

(* shutdown(), inside stop(): self.engine.stop() *)
ShutStopEngine(raises) ==
    /\ shut.pc = "engine_stop"
    /\ shut' = [pc |-> IF raises THEN "alive" ELSE "drain"]
    /\ ev' = NoEvent("shutdown_stop")
    /\ UNCHANGED <<SpeechFrame, tts_enabled, tts_vars, stop_flag, worker_thread, wk,
                   stopper, heard>>

(* shutdown(), inside stop(): one turn of the draining loop *)
ShutDrain ==
    /\ shut.pc = "drain"
    /\ IF speech_queue = <<>>
       THEN /\ shut' = [pc |-> "alive"]
            /\ UNCHANGED <<speech_queue, heard>>
       ELSE /\ speech_queue' = queue_get(speech_queue).rest
            /\ heard' = Taken(queue_get(speech_queue).pos)
            /\ shut' = shut
    /\ ev' = NoEvent("shutdown_drain")
    /\ UNCHANGED <<SpeechFrame, tts_enabled, tts_engine, tts_obj_enabled, stop_flag,
                   worker_thread, wk, stopper>>

(* shutdown(): if the worker is alive, put_nowait(None) *)
ShutSignal ==
    /\ shut.pc = "alive"
    /\ IF worker_thread = "alive"
       THEN /\ speech_queue' = Append(speech_queue, None)
            /\ shut' = [pc |-> "join"]
       ELSE /\ speech_queue' = speech_queue
            /\ shut' = [pc |-> "engine"]
    /\ ev' = NoEvent("shutdown_signal")
    /\ UNCHANGED <<SpeechFrame, tts_enabled, tts_engine, tts_obj_enabled, stop_flag,
                   worker_thread, wk, stopper, heard>>

(* shutdown(): worker_thread.join(timeout=1.0) returns, the worker ended    *)
(* or not                                                                  *)
ShutJoin ==
    /\ shut.pc = "join"
    /\ shut' = [pc |-> "engine"]
    /\ ev' = NoEvent("shutdown_join")
    /\ UNCHANGED <<SpeechFrame, tts_enabled, tts_vars, stop_flag, worker_thread, wk,
                   stopper, heard>>

(* shutdown(): engine.stop() with its errors ignored, self.engine = None *)
ShutEngine ==
    /\ shut.pc = "engine"
    /\ tts_engine' = FALSE
    /\ shut' = [pc |-> "done"]
    /\ ev' = NoEvent("shutdown_done")
    /\ UNCHANGED <<SpeechFrame, tts_enabled, tts_obj_enabled, speech_queue, stop_flag,
                   worker_thread, wk, stopper, heard>>

(* what a step of the worker leaves alone *)
WorkerFrame == <<SpeechFrame, tts_enabled, tts_engine, tts_obj_enabled, stop_flag,
                 stopper, shut>>

(* _speech_worker: "while not self.stop_flag" *)
W_While_IgnoresStopFlag ==
    /\ worker_thread = "alive" /\ wk.pc = "while"
    /\ wk' = [wk EXCEPT !.pc = "get"]
    /\ ev' = NoEvent("worker_while")
    /\ UNCHANGED <<WorkerFrame, speech_queue, heard, worker_thread>>

W_While ==
    /\ worker_thread = "alive" /\ wk.pc = "while"
    /\ IF stop_flag
       THEN worker_thread' = "dead" /\ wk' = [wk EXCEPT !.pc = "exit"]
       ELSE worker_thread' = worker_thread /\ wk' = [wk EXCEPT !.pc = "get"]
    /\ ev' = NoEvent("worker_while")
    /\ UNCHANGED <<WorkerFrame, speech_queue, heard>>

(* _speech_worker: text = self.speech_queue.get(timeout=0.5); queue.Empty   *)
(* leads back to the loop test, None ends the worker, any other text sets  *)
(* self.speaking                                                           *)
W_Get ==
    /\ worker_thread = "alive" /\ wk.pc = "get"
    /\ IF speech_queue = <<>>
       THEN /\ wk' = [wk EXCEPT !.pc = "while"]
            /\ UNCHANGED <<speech_queue, heard, worker_thread>>
       ELSE LET g == queue_get(speech_queue)
            IN  /\ speech_queue' = g.rest
                /\ heard' = Taken(g.pos)
                /\ IF g.item = None
                   THEN /\ worker_thread' = "dead"
                        /\ wk' = [wk EXCEPT !.pc = "exit"]
                   ELSE /\ worker_thread' = worker_thread
                        /\ wk' = [pc |-> "say", text |-> g.item,
                                  n |-> PendingIds[g.pos], speaking |-> TRUE]
    /\ ev' = NoEvent("worker_get")
    /\ UNCHANGED WorkerFrame

(* the worker after the inner try statement: the exception, if any, was     *)
(* caught; finally: self.speaking = False, task_done()                     *)
AfterUtterance(op) ==
    /\ wk' = [WorkerAtLoop EXCEPT !.n = wk.n]
    /\ ev' = NoEvent(op)
    /\ worker_thread' = worker_thread

(* _speech_worker: self.engine.say(text) and the start of runAndWait(); an  *)
(* exception (also: engine already None) is caught and the text is skipped *)
W_Say_Uncaught(raises) ==
    /\ worker_thread = "alive" /\ wk.pc = "say"
    /\ IF raises \/ ~tts_engine
       THEN /\ wk' = [WorkerAtLoop EXCEPT !.n = wk.n, !.pc = "exit"]
            /\ ev' = NoEvent("worker_raise")
            /\ worker_thread' = "dead"
            /\ heard' = heard
       ELSE /\ wk' = [wk EXCEPT !.pc = "running"]
            /\ ev' = NoEvent("worker_say")
            /\ worker_thread' = worker_thread
            /\ heard' = [heard EXCEPT !.started = Append(@, wk.n)]
    /\ UNCHANGED <<WorkerFrame, speech_queue>>

W_Say(raises) ==
    /\ worker_thread = "alive" /\ wk.pc = "say"
    /\ IF raises \/ ~tts_engine
       THEN /\ AfterUtterance("worker_raise")
            /\ heard' = heard
       ELSE /\ wk' = [wk EXCEPT !.pc = "running"]
            /\ ev' = NoEvent("worker_say")
            /\ worker_thread' = worker_thread
            /\ heard' = [heard EXCEPT !.started = Append(@, wk.n)]
    /\ UNCHANGED <<WorkerFrame, speech_queue>>

(* _speech_worker: runAndWait() returns, or raises and the exception is     *)
(* caught: the same steps follow                                           *)
W_Done ==
    /\ worker_thread = "alive" /\ wk.pc = "running"
    /\ AfterUtterance("worker_done")
    /\ UNCHANGED <<WorkerFrame, speech_queue, heard>>

Worker ==
    \/ W_While
    \/ W_Get
    \/ \E raises \in BOOLEAN : W_Say(raises)
    \/ W_Done

Shutdown ==
    \/ ShutdownCall
    \/ \E raises \in BOOLEAN : ShutStopEngine(raises)
    \/ ShutDrain
    \/ ShutSignal
    \/ ShutJoin
    \/ ShutEngine

NextSpeech ==
    \/ \E text \in Tokens : SpeakAsync(text)
    \/ StopCall
    \/ \E raises \in BOOLEAN : StopEngine(raises)
    \/ StopDrain
    \/ ToggleOn
    \/ \E ok \in BOOLEAN : ToggleOnReinit(ok)
    \/ Shutdown
    \/ Worker

SpecSpeech == Init /\ [][NextSpeech]_vars

(* the utterances begun so far are in the order of enqueueing, none twice *)
StartedInOrder ==
    \A i \in 1..Len(heard.started) : \A j \in 1..Len(heard.started) :
        i < j => heard.started[i] < heard.started[j]

(* C22: utterances are spoken in the order they were enqueued, none twice;  *)
(* the utterance in flight is the one begun last (no utterance is begun     *)
(* before the previous one has ended); at most one worker thread is ever    *)
(* started.                                                                *)
C22_OneWorkerInOrder ==
    /\ StartedInOrder
    /\ heard.workers <= 1
    /\ (worker_thread = "none") = (heard.workers = 0)
    /\ wk.pc = "running" => wk.n = Last(heard.started)
    /\ wk.pc \in {"say", "running"} => wk.n \in heard.gone

(* the second utterance is in flight while another entry is pending *)
C22_Witness ==
    /\ wk.pc = "running"
    /\ Len(heard.started) = 2
    /\ speech_queue # <<>>

(* a step in which the worker begins an utterance *)
WorkerStarts == Len(heard'.started) > Len(heard.started)

(* C23: when stop() returns, no entry enqueued before a call of stop() that *)
(* has returned is still pending, and the worker begins no such entry       *)
(* afterwards, whether or not the engine's own stop() raised.              *)
C23_StopDrainsQueue ==
    [][/\ ev'.op = "stop_return" =>
             \A i \in 1..Len(PendingIds') : PendingIds'[i] > heard'.stopmark
       /\ WorkerStarts => Last(heard'.started) > heard.stopmark]_vars

(* The worker thread and the thread inside shutdown() keep running: a step  *)
(* of either that stays possible is eventually taken.                      *)
SpecSpeechFair ==
    Init /\ [][NextSpeech]_vars /\ WF_vars(Worker) /\ WF_vars(Shutdown)

ShutdownCalled == shut.pc # "idle"

(* C24: once shutdown() is called the worker thread eventually ends and     *)
(* shutdown() eventually returns; at the join, shutdown() can always go on, *)
(* whether the worker has ended or not.                                    *)
C24_ShutdownEndsWorker ==
    /\ ShutdownCalled ~> (worker_thread # "alive")
    /\ ShutdownCalled ~> (shut.pc = "done")
    /\ [](shut.pc = "join" => ENABLED ShutJoin)

(* shutdown() waits at the join, a concurrent stop() has just drained the   *)
(* None entry, and the worker is still alive                               *)
C24_Witness ==
    /\ shut.pc = "join"
    /\ worker_thread = "alive"
    /\ ev.op = "stop_drain"
    /\ speech_queue = <<>>

(* ------------------- the speech backend unavailable ------------------- *)
(* The engine is None: pyttsx3 could not be initialized (enabled is then   *)
(* False and no worker was started), or shutdown() has run to its end and  *)
(* the worker has ended.                                                   *)
SilentHorizon == 3

WorkerEnded == [pc |-> "exit", text |-> None, n |-> 0]

InitUnavailable ==
    /\ clock = StartTime
    /\ current_sign = None
    /\ sign_start_time = NoTime
    /\ last_sign_time = InitialLastSignTime
    /\ last_spoken_sign = None
    /\ sign_hold_duration = DefaultHoldDuration
    /\ confidence_threshold = DefaultThreshold
    /\ tts_enabled = TRUE
    /\ ds_current_sentence = <<>>
    /\ current_sentence = <<>>
    /\ history = <<>>
    /\ sign_dict \in SignDicts
    /\ tts_engine = FALSE
    /\ pair = main_start(tts_engine)
    /\ speech_queue = <<>>
    /\ pc = Idle
    /\ th = [t \in Threads |-> ThreadIdle]
    /\ camera_lock = None
    /\ ev = NoEvent("init")
    /\ lastQual = NoQual
    /\ run = NoRun
    /\ lastAttempt = NoAttempt
    /\ pose = RestPose
    /\ gesture = NotRun
    /\ call = NoCall
    /\ stopper = NoStopper
    /\ \/ /\ tts_obj_enabled = FALSE
          /\ stop_flag = FALSE
          /\ worker_thread = "none"
          /\ wk = WorkerAtLoop
          /\ shut = NotShutDown
          /\ heard = NothingHeard(0)
       \/ /\ tts_obj_enabled = TRUE
          /\ stop_flag = TRUE
          /\ worker_thread = "dead"
          /\ wk = WorkerEnded
          /\ shut = [pc |-> "done"]
          /\ heard = NothingHeard(1)

(* The video loop and every method of TextToSpeech.  No worker thread is   *)
(* alive in these runs, so the worker's steps and the join are left out.   *)
NextUnavailable ==
    \/ clock < StartTime + SilentHorizon /\ Tick
    \/ \E f \in Frames : VideoFrame(f)
    \/ \E text \in Tokens : SpeakAsync(text)
    \/ StopCall
    \/ \E raises \in BOOLEAN : StopEngine(raises)
    \/ StopDrain
    \/ ToggleOn
    \/ \E ok \in BOOLEAN : ToggleOnReinit(ok)
    \/ ShutdownCall
    \/ \E raises \in BOOLEAN : ShutStopEngine(raises)
    \/ ShutDrain
    \/ ShutSignal
    \/ ShutEngine

SpecUnavailable == InitUnavailable /\ [][NextUnavailable]_vars

(* the steps of speak_async, stop() and shutdown() *)
SpeechCallOps == {"speak", "stop_call", "stop_engine", "stop_drain", "stop_return",
                  "shutdown", "shutdown_stop", "shutdown_drain", "shutdown_signal",
                  "shutdown_join", "shutdown_done"}

(* C25: in a state where the engine is None, a call of speak_async enqueues *)
(* nothing and starts no worker, stop() returns at once, shutdown() goes    *)
(* straight to its end without touching the queue or the worker, and a      *)
(* frame whose sign was held long enough and differs from the last token    *)
(* appends it.                                                             *)
C25_SilentWithoutEngine ==
    [][~tts_engine =>
         /\ ev'.op \in SpeechCallOps =>
               /\ speech_queue' = speech_queue
               /\ worker_thread' = worker_thread /\ wk' = wk
               /\ heard'.workers = heard.workers
               /\ tts_engine' = tts_engine
               /\ stopper.pc = "idle" => stopper' = NoStopper
               /\ shut'.pc \in {"idle", "alive", "engine", "done"}
         /\ (FrameStep /\ ev'.attempt /\ ev'.sign # Last(current_sentence)) =>
               /\ current_sentence' = Append(current_sentence, ev'.sign)
               /\ speech_queue' = speech_queue]_vars

(* pyttsx3 was missing, shutdown() has run, and a frame appends a token *)
C25_Witness ==
    /\ ~tts_engine /\ ~tts_obj_enabled
    /\ shut.pc = "done"
    /\ ev.op = "video" /\ ev.added
    /\ current_sentence # <<>>

(* ------------- the video loop feeding the speech worker --------------- *)
(* Frames commit tokens and enqueue them while the worker speaks; besides  *)
(* detect_signs, speak_async is called directly.                           *)
DispatchHorizon == 4

NextDispatch ==
    \/ clock < StartTime + DispatchHorizon /\ Tick
    \/ \E f \in Frames : Enqueued < MaxUtterances /\ VideoFrame(f)
    \/ \E text \in Tokens : SpeakAsync(text)
    \/ Worker

SpecDispatch == Init /\ [][NextDispatch]_vars

(* entries may still be put on the queue within the bounds of the runs *)
RoomForSpeech == Len(speech_queue) < MaxPending /\ Enqueued < MaxUtterances

(* C26: speak_async is never held up by the worker: whatever the worker is   *)
(* doing and whatever the queue holds, the call can be made and leaves the   *)
(* worker as it is; and a frame can be processed in every state.            *)
C26_EnqueueNeverWaits ==
    /\ \A text \in Tokens : RoomForSpeech => ENABLED SpeakAsync(text)
    /\ \A f \in Frames :
          (InBounds(detect_signs(f, clock)) /\ Enqueued < MaxUtterances)
             => ENABLED VideoFrame(f)

(* a frame has committed a token and enqueued it while an earlier utterance *)
(* was in flight                                                            *)
C26_Witness ==
    /\ ev.op = "video" /\ ev.added /\ ev.spoke
    /\ wk.pc = "running"
    /\ Len(speech_queue) = 1

(* the frame's classification passes the threshold now in force *)
Qualifies(f) == f.hand /\ f.cls.id # NoId /\ f.cls.conf >= confidence_threshold

(* the display text of the frame's sign *)
TextOf(f) == IF f.cls.id \in DOMAIN sign_dict THEN sign_dict[f.cls.id] ELSE f.cls.name

(* C27: every frame is evaluated with the threshold and the hold duration   *)
(* that are in force when it arrives, also when they were changed during    *)
(* the hold: the frame qualifies iff its confidence reaches the current     *)
(* threshold, and a qualifying frame of the held sign attempts the commit   *)
(* iff the time since sign_start_time reaches the current hold duration.    *)
C27_ConfigUsedByNextFrame ==
    [][\A f \in Frames : (VideoFrame(f) \/ ApiDetect1(f)) =>
         /\ (ev'.obs = "qual") = Qualifies(f)
         /\ Qualifies(f) => last_sign_time' = clock
         /\ ~Qualifies(f) => ~ev'.attempt /\ current_sentence' = current_sentence
         /\ (Qualifies(f) /\ TextOf(f) = current_sign /\ TruthyTime(sign_start_time)) =>
               IF clock - sign_start_time >= sign_hold_duration
               THEN ev'.attempt /\ current_sign' = None /\ sign_start_time' = NoTime
               ELSE /\ ~ev'.attempt
                    /\ UNCHANGED <<current_sign, sign_start_time, current_sentence>>]_vars

(* the threshold was raised above the confidence of the held sign while it  *)
(* was being held, and a frame has been evaluated against the new value     *)
C27_Witness ==
    /\ ev.op = "video" /\ ev.obs = "nonqual"
    /\ current_sign = "Hello" /\ TruthyTime(sign_start_time)
    /\ confidence_threshold > Hello.conf

(* --------------- recognize_sign under other dictionaries -------------- *)
(* sign_dictionary.json may map an id to another text than the rule's name, *)
(* map it to the empty string, or have no entry for it; a classification   *)
(* may carry no name.                                                      *)
Renamed == [i \in {0} |-> "Hi"]

Blank == [i \in {0} |-> ""]

NoEntries == [i \in {} |-> ""]

SignDictsAll == SignDicts \cup {Renamed, Blank, NoEntries}

Unnamed == [id |-> 0, name |-> None, conf |-> 90]

FramesAll == Frames \cup {[hand |-> TRUE, cls |-> Unnamed]}

InitRecognize ==
    /\ clock = StartTime
    /\ current_sign = None
    /\ sign_start_time = NoTime
    /\ last_sign_time = InitialLastSignTime
    /\ last_spoken_sign = None
    /\ sign_hold_duration = DefaultHoldDuration
    /\ confidence_threshold \in Thresholds
    /\ tts_enabled = TRUE
    /\ ds_current_sentence = <<>>
    /\ current_sentence = <<>>
    /\ history = <<>>
    /\ sign_dict \in SignDictsAll
    /\ tts_engine = FALSE
    /\ pair = main_start(tts_engine)
    /\ tts_obj_enabled = tts_engine
    /\ speech_queue = <<>>
    /\ pc = Idle
    /\ th = [t \in Threads |-> ThreadIdle]
    /\ camera_lock = None
    /\ ev = NoEvent("init")
    /\ lastQual = NoQual
    /\ run = NoRun
    /\ lastAttempt = NoAttempt
    /\ pose = RestPose
    /\ gesture = NotRun
    /\ call = NoCall
    /\ InitWorker

NextRecognize ==
    \/ Tick
    \/ \E f \in FramesAll : VideoFrame(f)

SpecRecognize == InitRecognize /\ [][NextRecognize]_vars

(* C28: a frame whose sign id is classified with confidence >= threshold is *)
(* processed under the dictionary text of the id if the dictionary has an   *)
(* entry and under the rule's name otherwise; if that text is empty or      *)
(* absent, or the confidence is below the threshold, the frame is           *)
(* non-qualifying: it starts no hold, advances none and refreshes no        *)
(* observation time.                                                       *)
C28_DictionaryThenName ==
    [][\A f \in FramesAll : (f.hand /\ VideoFrame(f)) =>
         IF Qualifies(f) /\ Truthy(TextOf(f))
         THEN /\ last_sign_time' = clock
              /\ IF HeldLongEnough(TextOf(f), clock)
                 THEN current_sign' = None /\ sign_start_time' = NoTime
                 ELSE current_sign' = TextOf(f) /\ TruthyTime(sign_start_time')
              /\ Appends => Last(current_sentence') = TextOf(f)
         ELSE /\ last_sign_time' = last_sign_time
              /\ current_sentence' = current_sentence
              /\ \/ UNCHANGED <<current_sign, sign_start_time>>
                 \/ current_sign' = None /\ sign_start_time' = NoTime]_vars

(* a sign without dictionary entry was committed under the rule's name, and *)
(* a frame without usable text has left the hold of the next sign as it was *)
C28_Witness ==
    /\ sign_dict = NoEntries
    /\ current_sentence = <<"Hello">>
    /\ ev.op = "video" /\ ev.obs = "nonqual"
    /\ current_sign = "Stop"
    /\ last_sign_time < clock

(* ----------------------- the finger analysis -------------------------- *)
(* analyze_fingers and count_extended_fingers called on one pose. *)
AnalyzeFingers ==
    /\ ~gesture.done
    /\ gesture' = [done |-> TRUE, res |-> NoMatch,
                   fingers |-> analyze_fingers(pose),
                   count |-> count_extended_fingers(analyze_fingers(pose))]
    /\ UNCHANGED <<clock, detection_vars, config_vars, tts_enabled, ds_current_sentence,
                   converter_vars, sign_dict, pair, tts_vars, pc, thread_vars, ghost_vars,
                   pose, call, worker_vars>>

NextFingers == AnalyzeFingers

SpecFingers == InitGesture /\ [][NextFingers]_vars

(* 1 if the test holds, else 0 *)
One(b) == IF b THEN 1 ELSE 0

(* C29: for a pose of 21 landmarks the thumb is extended iff                *)
(* |thumb_tip.x - wrist.x| > |thumb_mcp.x - wrist.x| and each other finger  *)
(* iff its tip y is strictly smaller than its PIP y; the count is the       *)
(* number of extended fingers; for fewer than 21 landmarks the result is    *)
(* None and the count is 0.                                                *)
C29_FingerStates ==
    gesture.done =>
      IF LenLandmarks(pose) < 21
      THEN gesture.fingers = NoFingers /\ gesture.count = 0
      ELSE LET thumb == Abs(pose[4].x - pose[0].x) > Abs(pose[2].x - pose[0].x)
               index == pose[8].y < pose[6].y
               middle == pose[12].y < pose[10].y
               ring == pose[16].y < pose[14].y
               pinky == pose[20].y < pose[18].y
           IN  /\ gesture.fingers = [thumb |-> thumb, index |-> index, middle |-> middle,
                                     ring |-> ring, pinky |-> pinky]
               /\ gesture.count
                    = One(thumb) + One(index) + One(middle) + One(ring) + One(pinky)
               /\ gesture.count \in 0..5

(* the thumb tip is left of the wrist and exactly as far from it as the MCP *)
(* joint, the index tip is level with its PIP joint: both count as closed,  *)
(* the other three are extended                                            *)
C29_Witness ==
    /\ gesture.done /\ LenLandmarks(pose) = 21
    /\ pose[4].x < pose[0].x
    /\ Abs(pose[4].x - pose[0].x) = Abs(pose[2].x - pose[0].x)
    /\ pose[8].y = pose[6].y
    /\ gesture.count = 3

(* ---------------- thumb and index extended: Yes and C ------------------ *)
ThumbAndIndex == gesture.done /\ ScaleValid(pose) /\ Extended(pose) = {"thumb", "index"}

(* the normalized thumb-index distance d against a bound of n hundredths,  *)
(* compared on the squares: d < n/100 iff 10000 * dist^2 < n^2 * size^2     *)
DBelow(n) == 10000 * thumb_index_dist_sq(pose) < n * n * hand_size_sq(pose)
DAbove(n) == 10000 * thumb_index_dist_sq(pose) > n * n * hand_size_sq(pose)

ClosedTipsBelowPips ==
    /\ pose[MIDDLE_TIP].y > pose[MIDDLE_PIP].y
    /\ pose[RING_TIP].y > pose[RING_PIP].y
    /\ pose[PINKY_TIP].y > pose[PINKY_PIP].y

(* C30: with exactly thumb and index extended and a valid scale the result  *)
(* is (3, "Yes", 0.90) iff d < 0.2 and the middle, ring and pinky tips are  *)
(* strictly below their PIP joints, (23, "C", 0.75) iff 0.2 < d < 0.4, and  *)
(* no-match in every remaining case: d exactly 0.2, d >= 0.4, and d < 0.2   *)
(* with a closed finger whose tip y equals its PIP y.                       *)
C30_YesAndCByDistance ==
    ThumbAndIndex =>
        /\ gesture.res = Yes <=> (DBelow(20) /\ ClosedTipsBelowPips)
        /\ gesture.res = LetterC <=> (DAbove(20) /\ DBelow(40))
        /\ gesture.res \in {Yes, LetterC, NoMatch}

(* a thumb-and-index pose with d exactly 0.2 and the closed tips strictly   *)
(* below their PIP joints: neither Yes nor C                                *)
C30_Witness ==
    /\ ThumbAndIndex
    /\ ~DBelow(20) /\ ~DAbove(20)
    /\ ClosedTipsBelowPips
    /\ gesture.res = NoMatch

(* ------------------------ the B rule is shadowed ----------------------- *)
FourFingers ==
    gesture.done /\ ScaleValid(pose) /\ Extended(pose) = {"index", "middle", "ring", "pinky"}

(* C32: recognize_gesture never returns id 22 ("B"): every pose with the    *)
(* thumb closed and index, middle, ring and pinky extended is classified    *)
(* (14, "Water", 0.75) by the earlier rule, whatever the index-middle       *)
(* distance.                                                                *)
C32_LetterBUnreachable ==
    /\ gesture.done => gesture.res.id # LetterB.id
    /\ FourFingers => gesture.res = Water

(* a four-finger pose with index and middle tips together, as the B rule    *)
(* asks, classified Water                                                   *)
C32_Witness ==
    /\ FourFingers
    /\ LetterBRule(pose)
    /\ gesture.res = Water

(* ------------------- the classifier's result is whole ------------------ *)
(* landmark lists of 21 entries one of which lacks its y coordinate *)
RaggedPoses ==
    {[i \in 0..20 |-> IF i = k THEN [x |-> 0] ELSE Point(0, 0)] : k \in {0, 12, 20}}

LandmarkLists == Poses \cup RaggedPoses

(* the dictionary file as shipped, with another display text, or missing *)
DisplayDicts == SignDicts \cup {Renamed, NoEntries}

InitLandmarks ==
    /\ clock = StartTime
    /\ current_sign = None
    /\ sign_start_time = NoTime
    /\ last_sign_time = InitialLastSignTime
    /\ last_spoken_sign = None
    /\ sign_hold_duration = DefaultHoldDuration
    /\ confidence_threshold = DefaultThreshold
    /\ tts_enabled = TRUE
    /\ ds_current_sentence = <<>>
    /\ current_sentence = <<>>
    /\ history = <<>>
    /\ sign_dict \in DisplayDicts
    /\ tts_engine = TRUE
    /\ pair = main_start(tts_engine)
    /\ tts_obj_enabled = tts_engine
    /\ speech_queue = <<>>
    /\ pc = Idle
    /\ th = [t \in Threads |-> ThreadIdle]
    /\ camera_lock = None
    /\ ev = NoEvent("init")
    /\ lastQual = NoQual
    /\ run = NoRun
    /\ lastAttempt = NoAttempt
    /\ pose \in LandmarkLists
    /\ gesture = NotRun
    /\ call = NoCall
    /\ InitWorker

(* GestureRecognizer.recognize_from_landmarks(landmark_list) *)
RecognizeFromLandmarks ==
    /\ ~gesture.done
    /\ gesture' = [done |-> TRUE, res |-> recognize_from_landmarks(pose),
                   entry |-> "recognize_from_landmarks"]
    /\ UNCHANGED <<clock, detection_vars, config_vars, tts_enabled, ds_current_sentence,
                   converter_vars, sign_dict, pair, tts_vars, pc, thread_vars, ghost_vars,
                   pose, call, worker_vars>>

NextLandmarks ==
    \/ RecognizeFromLandmarks
    \/ pose \in Poses /\ RecognizeGesture

SpecLandmarks == InitLandmarks /\ [][NextLandmarks]_vars

RuleConfidences == {75, 80, 85, 90}

(* C38: every result of recognize_gesture and recognize_from_landmarks is   *)
(* well formed: the sign id is None iff the sign name is None iff the       *)
(* confidence is 0.0, and a result that is not None has a confidence among  *)
(* 0.75, 0.80, 0.85 and 0.90; so at the default threshold 0.4 every rule    *)
(* match passes recognize_sign with a text and its confidence.              *)
C38_ResultWellFormed ==
    gesture.done =>
        /\ (gesture.res.id = NoId) <=> (gesture.res.name = None)
        /\ (gesture.res.name = None) <=> (gesture.res.conf = 0)
        /\ gesture.res.id # NoId =>
              /\ gesture.res.conf \in RuleConfidences
              /\ gesture.res.conf >= DefaultThreshold
              /\ Truthy(recognize_sign(gesture.res, DefaultThreshold).text)
              /\ recognize_sign(gesture.res, DefaultThreshold).conf = gesture.res.conf

(* recognize_from_landmarks returns the rule match of lowest confidence *)
C38_Witness ==
    /\ gesture.done
    /\ "entry" \in DOMAIN gesture
    /\ gesture.res = Water
    /\ recognize_sign(gesture.res, DefaultThreshold).text = "Water"

(* ------------------ the engine raises in the worker -------------------- *)
(* speak_async and the worker alone, while time passes: no stop(), no       *)
(* shutdown()                                                              *)
NextWorker ==
    \/ clock < StartTime + DispatchHorizon /\ Tick
    \/ \E text \in Tokens : SpeakAsync(text)
    \/ Worker

(* the worker thread keeps running *)
SpecWorkerFair == Init /\ [][NextWorker]_vars /\ WF_vars(Worker)

(* the worker has just caught an exception of engine.say or runAndWait, or  *)
(* runAndWait has ended                                                    *)
UtteranceOver == ev.op \in {"worker_raise", "worker_done"}

(* the worker is saying, or about to say, the entry named k *)
Speaking(k) == wk.n = k /\ wk.pc \in {"say", "running"}

(* C37: an exception raised by the engine while an utterance is spoken is   *)
(* caught inside the worker: the worker stays alive at the head of its loop *)
(* with the speaking flag false, the utterance is neither put back on the   *)
(* queue nor taken up again (every entry the worker takes up was enqueued   *)
(* later than the one before), and the next queued utterance is taken up    *)
(* and, the engine willing, spoken.                                        *)
C37_WorkerSurvivesEngineError ==
    /\ [](UtteranceOver => worker_thread = "alive" /\ wk.pc = "while" /\ ~wk.speaking)
    /\ [][ev'.op = "worker_raise" =>
             speech_queue' = speech_queue /\ heard' = heard]_vars
    /\ [][wk'.pc = "say" /\ wk.pc # "say" => wk'.n > wk.n]_vars
    /\ \A m \in 1..MaxUtterances :
          (ev.op = "worker_raise" /\ PendingIds # <<>> /\ PendingIds[1] = m)
              ~> Speaking(m)

(* the engine raised on the first utterance, which never began, and the     *)
(* second is being spoken                                                  *)
C37_Witness ==
    /\ heard.gone = {1, 2}
    /\ heard.started = <<2>>
    /\ wk.pc = "running" /\ wk.n = 2 /\ wk.speaking
    /\ worker_thread = "alive"

(* -------------------- no utterance ends the worker --------------------- *)
(* the texts that are None or empty *)
NoText == {t \in Tokens : ~Truthy(t)}

(* shutdown() has put its sentinel on the queue *)
ShutdownSignalled == shut.pc \in {"join", "engine", "done"}

(* C39: speak and speak_async called with a None or empty text enqueue      *)
(* nothing; a None on the speech queue is the sentinel that shutdown() put  *)
(* there, and the worker thread ends only after shutdown() was called.      *)
C39_OnlyShutdownEndsWorker ==
    /\ [][\A text \in NoText : SpeakAsync(text) => speech_queue' = speech_queue]_vars
    /\ [](\A i \in 1..Len(speech_queue) :
             speech_queue[i] = None =>
                 /\ ShutdownSignalled
                 /\ \A j \in 1..Len(speech_queue) : speech_queue[j] = None => j = i)
    /\ [](worker_thread = "dead" => ShutdownCalled /\ stop_flag)

(* speak_async was called without a text while the engine and the worker    *)
(* were ready: nothing was ever enqueued                                   *)
C39_Witness ==
    /\ ev.op = "speak"
    /\ Enqueued = 0
    /\ tts_engine /\ tts_obj_enabled
    /\ worker_thread = "alive" /\ ~ShutdownCalled

(* -------------------- the commit state is well formed ------------------ *)
(* the steps that process a frame *)
FrameOps == {"video", "api1", "api2"}

(* C35: in every state of the sequential program current_sign and           *)
(* sign_start_time are both None (Idle) or both set (Holding), and when     *)
(* Holding sign_start_time <= last_sign_time <= the time of the latest      *)
(* processed frame: last_sign_time is written only by a step that processes *)
(* a frame, with that frame's time, and never lies in the future.           *)
C35_CommitStateWellFormed ==
    /\ []((current_sign = None) <=> (sign_start_time = NoTime))
    /\ [](current_sign # None =>
             /\ TruthyTime(sign_start_time)
             /\ sign_start_time <= last_sign_time
             /\ last_sign_time <= clock)
    /\ [][last_sign_time' # last_sign_time =>
             ev'.op \in FrameOps /\ last_sign_time' = clock']_vars

(* Holding, the sign seen again after the hold began, and time has passed   *)
(* since                                                                   *)
C35_Witness ==
    /\ current_sign # None
    /\ sign_start_time < last_sign_time
    /\ last_sign_time < clock
    /\ ev.op \in FrameOps

(* --------------- speech on throughout a sequential run ----------------- *)
(* the engine was initialized and the speech toggle is never used *)
InitSpeechOn == Init /\ tts_engine

NextSpeechOn ==
    \/ Tick
    \/ \E f \in Frames : VideoFrame(f)
    \/ \E f \in Frames : ApiDetect1(f)
    \/ ApiDetect2
    \/ ClearSentence
    \/ RemoveLastWord
    \/ WorkerSpeak

SpecSpeechOn == InitSpeechOn /\ [][NextSpeechOn]_vars

(* C33: with speech enabled and available throughout a sequential run       *)
(* last_spoken_sign is None or the last token of the sentence in every      *)
(* state; hence every successful append enqueues exactly one utterance, the *)
(* appended sign, and the comparison with last_spoken_sign never            *)
(* suppresses speech.                                                       *)
C33_SpokenIsLastToken ==
    /\ [](last_spoken_sign = None \/ last_spoken_sign = Last(current_sentence))
    /\ [][ev'.added =>
             /\ ev'.spoke
             /\ speech_queue' = Append(speech_queue, Last(current_sentence'))
             /\ last_spoken_sign' = Last(current_sentence')]_vars
    /\ [][Len(speech_queue') > Len(speech_queue) => ev'.added]_vars

(* the second token of the sentence was appended and spoken *)
C33_Witness ==
    /\ ev.added /\ ev.spoke
    /\ Len(current_sentence) = 2
    /\ last_spoken_sign = Last(current_sentence)
    /\ speech_queue = <<last_spoken_sign>>

(* ------------- the sentence does not depend on speech ------------------ *)
(* What a run shows apart from speech: the candidate and its hold, the      *)
(* sentence in the converter and its copy in detection_state, the history,  *)
(* and the position inside a /api/detect request.                           *)
Quiet == [cur |-> current_sign, start |-> sign_start_time, last |-> last_sign_time,
          sent |-> current_sentence, dsent |-> ds_current_sentence,
          hist |-> history, at |-> pc]

QuietNext == [cur |-> current_sign', start |-> sign_start_time',
              last |-> last_sign_time', sent |-> current_sentence',
              dsent |-> ds_current_sentence', hist |-> history', at |-> pc']

(* The effect of one pass of the commit block on Quiet, computed from Quiet *)
(* and the observation alone: speech state is not read.                     *)
QuietCommit(sign_text, confidence, now) ==
    IF sign_text # current_sign
    THEN [Quiet EXCEPT !.cur = sign_text, !.start = now, !.last = now]
    ELSE IF sign_start_time # NoTime /\ sign_start_time # 0
            /\ now - sign_start_time >= sign_hold_duration
    THEN LET fresh == /\ confidence >= confidence_threshold
                      /\ (current_sentence = <<>> \/ Last(current_sentence) # sign_text)
             sent == current_sentence \o <<sign_text>>
         IN  [Quiet EXCEPT !.cur = None, !.start = NoTime, !.last = now,
                           !.sent = IF fresh THEN sent ELSE @,
                           !.dsent = IF fresh THEN sent ELSE @]
    ELSE [Quiet EXCEPT !.last = now]

QuietFrame(f, now) ==
    LET r == detect_signs_result(f)
    IN  IF ~f.hand THEN Quiet
        ELSE IF Truthy(r.text) THEN QuietCommit(r.text, r.conf, now)
        ELSE IF now - last_sign_time > GapTimeout
             THEN [Quiet EXCEPT !.cur = None, !.start = NoTime]
        ELSE Quiet

(* C34: the sentence, the history and the candidate/hold state after a step *)
(* are determined by their values before it and by the step's input (frame, *)
(* timestamp, clear, backspace), whatever the speech flag, the engine, the  *)
(* queue and last_spoken_sign are, and the speech toggle and the worker     *)
(* leave them as they are: two runs fed the same inputs agree on them after *)
(* every step, however they differ in speech.                               *)
C34_SentenceIgnoresSpeech ==
    [][/\ \A f \in Frames : VideoFrame(f) => QuietNext = QuietFrame(f, clock)
       /\ \A f \in Frames : ApiDetect1(f) =>
             QuietNext = [QuietFrame(f, clock) EXCEPT
                            !.at = [at |-> "api2", sign_text |-> detect_signs_result(f).text,
                                    confidence |-> detect_signs_result(f).conf,
                                    t1 |-> clock]]
       /\ ApiDetect2 =>
             QuietNext = [(IF Truthy(pc.sign_text)
                           THEN QuietCommit(pc.sign_text, pc.confidence, clock)
                           ELSE Quiet) EXCEPT !.at = Idle]
       /\ ClearSentence =>
             QuietNext = [Quiet EXCEPT !.sent = <<>>, !.dsent = <<>>,
                                       !.hist = clear_sentence(current_sentence, history)]
       /\ RemoveLastWord =>
             QuietNext = [Quiet EXCEPT !.sent = remove_last_word(current_sentence),
                                       !.dsent = remove_last_word(current_sentence)]
       /\ (ToggleTts \/ WorkerSpeak \/ Tick) => QuietNext = Quiet]_vars

(* the second token was appended without speech: the engine is there and    *)
(* speech is switched off                                                  *)
C34_Witness ==
    /\ ev.added /\ ~ev.spoke
    /\ ~tts_enabled /\ tts_engine
    /\ Len(current_sentence) = 2
    /\ ds_current_sentence = current_sentence

(* ---------------- main.py and app.py run side by side ------------------ *)
(* Every step gives both programs the same input: the same frame read at   *)
(* the same clock value, or the same operation ('c' and POST /api/sentence, *)
(* 'b' and POST /api/sentence/backspace, 't' and POST /api/tts/toggle).     *)
MaxSaid == 2

(* the text detect_signs handed to speak_async, if it did *)
SaidByWeb(said, f, D) ==
    IF D.queue # speech_queue THEN Append(said, detect_signs_result(f).text)
    ELSE said

(* one camera frame through generate_frames/detect_signs and through the   *)
(* main loop                                                                *)
PairFrame(f) ==
    /\ pc.at = "idle"
    /\ LET D == detect_signs(f, clock)
           M == main_frame(pair, f, clock)
       IN  /\ InBounds(D)
           /\ Len(M.said_main) <= MaxSaid
           /\ Len(SaidByWeb(pair.said_web, f, D)) <= MaxSaid
           /\ Apply(D)
           /\ GhostFrame("video", f, D, clock)
           /\ pair' = [M EXCEPT !.said_web = SaidByWeb(@, f, D)]
    /\ UNCHANGED <<clock, config_vars, tts_enabled, history, sign_dict,
                   tts_engine, tts_obj_enabled, pc, thread_vars, unit_vars, worker_vars>>

(* key 'c' and POST /api/sentence *)
PairClear ==
    /\ pc.at = "idle"
    /\ Len(clear_sentence(current_sentence, history)) <= MaxHistory
    /\ history' = clear_sentence(current_sentence, history)
    /\ current_sentence' = <<>>
    /\ ds_current_sentence' = <<>>
    /\ last_spoken_sign' = None
    /\ pair' = main_key_c(pair)
    /\ ev' = NoEvent("clear")
    /\ run' = NoRun
    /\ UNCHANGED <<clock, current_sign, sign_start_time, last_sign_time, config_vars,
                   tts_enabled, sign_dict, tts_vars, pc, thread_vars, unit_vars,
                   worker_vars, lastQual, lastAttempt>>

(* key 'b' and POST /api/sentence/backspace *)
PairBackspace ==
    /\ pc.at = "idle"
    /\ current_sentence' = remove_last_word(current_sentence)
    /\ ds_current_sentence' = current_sentence'
    /\ last_spoken_sign' = None
    /\ pair' = main_key_b(pair)
    /\ ev' = NoEvent("backspace")
    /\ run' = NoRun
    /\ UNCHANGED <<clock, current_sign, sign_start_time, last_sign_time, config_vars,
                   tts_enabled, history, sign_dict, tts_vars, pc, thread_vars,
                   unit_vars, worker_vars, lastQual, lastAttempt>>

(* key 't' and POST /api/tts/toggle; tts.stop() empties the queue of the   *)
(* program's own TextToSpeech and changes nothing that is compared          *)
PairToggle(init_ok) ==
    /\ pc.at = "idle"
    /\ tts_enabled' = ~tts_enabled
    /\ \E raises \in BOOLEAN :
         speech_queue' = IF ~tts_enabled' THEN stop(speech_queue, raises)
                         ELSE speech_queue
    /\ pair' = main_key_t(pair, init_ok)
    /\ ev' = NoEvent("toggle")
    /\ UNCHANGED <<clock, detection_vars, config_vars, ds_current_sentence,
                   converter_vars, sign_dict, tts_engine, tts_obj_enabled, pc,
                   thread_vars, unit_vars, worker_vars, lastQual, run, lastAttempt>>

NextPair ==
    \/ Tick
    \/ \E f \in Frames : PairFrame(f)
    \/ PairClear
    \/ PairBackspace
    \/ \E init_ok \in BOOLEAN : PairToggle(init_ok)
    \/ WorkerSpeak

SpecPair == Init /\ [][NextPair]_vars

(* the commit state and the speech requests of the two programs agree *)
PairEqual ==
    /\ pair.current_sign = current_sign
    /\ pair.sign_start_time = sign_start_time
    /\ pair.last_sign_time = last_sign_time
    /\ pair.last_spoken_sign = last_spoken_sign
    /\ pair.sentence = current_sentence
    /\ pair.said_main = pair.said_web

NoAdjacentDuplicates(sentence) ==
    \A i \in 1..(Len(sentence) - 1) : sentence[i] # sentence[i + 1]

(* the frame update of thread t ended in "unsupported operand" on           *)
(* current_time - detection_state['sign_start_time'] with the start None    *)
FailedOnClearedStart(t) == th[t].err

(* C31: however the steps of two threads that process frames at the same   *)
(* time interleave, the sentence never holds two identical adjacent        *)
(* tokens (a held sign appended twice for one hold would stand there       *)
(* twice), and no frame update fails on a hold start that the other thread  *)
(* has cleared.                                                            *)
C31_InterleavingsKeepSentence ==
    /\ NoAdjacentDuplicates(current_sentence)
    /\ \A t \in Threads : ~FailedOnClearedStart(t)

====
